---- MODULE Spec2Model ----
\* Storage tier manager of tiktok_stats (webStorageService.js) and the
\* column-mapping service that writes through it.
\*
\* Two browser stores are modelled: localStorage (the fast tier, the ls
\* variables) and IndexedDB (the durable tier, the idb variables).  Every
\* exported async function is a process in a slot of procs; one action is
\* the code that runs when an awaited IndexedDB request answers, up to the
\* next IndexedDB request.  An await of an already settled promise is not a
\* scheduling point of the model.  A request that fails (request.onerror,
\* localStorage throwing) is an input of the step and leaves the store
\* unchanged.
EXTENDS Integers, Sequences, FiniteSets, TLC

\* ------------------------------------------------------------- bounds ---
MaxClock == 2        \* Date.now() takes the values 1..MaxClock
MaxOps == 2          \* calls made one after the other in a behaviour
MaxConcOps == 3      \* calls made in a behaviour of SpecConc
MaxFaults == 1       \* storage requests that fail in a behaviour of Spec
MaxRecs == 2         \* records of one account in a data store at the start of SpecLoad
MaxMapOps == 3       \* calls made in a behaviour of SpecMap
MaxEdits == 3        \* edits made in a behaviour of SpecEdit
MaxFileRows == 1     \* rows of a small file in SpecUpload and SpecProcess
MaxOptional == 2     \* optional columns a row of SpecMapRow can have
MaxSpelled == 2      \* required columns a file of SpecValidate can spell its way
MaxConnections == 2  \* connections other pages hold when the reset is asked
MaxHeaders == 4      \* headers a file of SpecDetect can have
MaxOver == 1         \* rows beyond the ceiling of 5000 in a file of SpecProcess
MaxManagerOps == 3   \* calls made while the account manager is open (SpecManage)
MaxNumber == 4       \* the numbers given in SpecNumeric are -MaxNumber/2..MaxNumber/2

\* ---------------------------------------------------------- constants ---
FAST_TIER_LIMIT == 1000000

OVERVIEW == "overview"
VIDEO == "video"
CSV_TYPES == {OVERVIEW, VIDEO}

Absent == "absent"       \* undefined / missing property / missing key
NoId == 0                \* account object without id

\* ------------------------------------------------------------ inputs ---
\* Date strings a row can carry, and what new Date(s).toISOString() gives.
RawDate == "2024-01-01"
IsoDate == "2024-01-01T00:00:00.000Z"
BadDate == "n/a"

\* new Date(s) is a valid date (part_005:445-446)
IsParseableDate(s) == s \in {RawDate, IsoDate}

\* date.toISOString() (part_005:447)
ToISOString(s) == IF s \in {RawDate, IsoDate} THEN IsoDate ELSE s

\* Rows: len is JSON.stringify(row).length of the row as the caller passes it.
RowA == [date |-> RawDate, publish_time |-> Absent, accountId |-> Absent, len |-> 999997]
RowB == [date |-> BadDate, publish_time |-> RawDate, accountId |-> 9, len |-> 499999]
RowC == [date |-> IsoDate, publish_time |-> Absent, accountId |-> Absent, len |-> 499998]

\* one array of 999,999 characters and one of 1,000,000
RowLists == { <<RowA>>, <<RowB, RowC>> }

\* the ids a caller passes: of an account created at time 1, and at time 2
AccountIds == {1, 2}
Procs == {1, 2}          \* the slots of the calls that can overlap


Mappings == {"mapA"}     \* the column-mapping table a caller saves

NoAccount == [id |-> NoId, name |-> Absent, hasOverviewData |-> FALSE, hasVideoData |-> FALSE]
NoSnap == [accountId |-> NoId, dataType |-> Absent, timestamp |-> 0, data |-> <<>>]
NoStats == [error |-> FALSE, used |-> 0, accountsCount |-> 0, overviewDataCount |-> 0, videoDataCount |-> 0]

VARIABLES
  now,             \* Date.now()
  lsAccounts,      \* localStorage[STORAGE_KEYS.ACCOUNTS]: array of accounts
  lsData,          \* localStorage[<prefix> + accountId]: snapshot per account and type
  lsMappings,      \* localStorage[COLUMN_MAPPINGS_<type>]
  cachedMappings,  \* columnMappingService.js cachedMappings
  idbAccounts,     \* object store 'accounts', keyPath id
  idbData,         \* object stores 'overviewData' / 'videoData', index accountId
  nextKey,         \* autoIncrement key generator of each data store
  procs,           \* calls in flight: position and locals of each
  hist,            \* results of the calls that returned since no call was in flight
  par,             \* calls the caller lets overlap
  opsLeft,         \* calls the caller still makes
  faultsLeft,      \* storage requests that can still fail
  editor,          \* ColumnMappingEditor.jsx: the state of the component
  calc             \* a call of a function of the data processor: argument, result

vars == <<now, lsAccounts, lsData, lsMappings, cachedMappings, idbAccounts,
          idbData, nextKey, procs, hist, par, opsLeft, faultsLeft, editor, calc>>

\* ------------------------------------------------------ pure helpers ---
RECURSIVE SumLen(_)
SumLen(data) == IF data = <<>> THEN 0 ELSE Head(data).len + SumLen(Tail(data))

\* JSON.stringify(data).length for an array of rows: brackets, rows, commas
JsonLength(data) ==
  2 + SumLen(data) + (IF Len(data) > 0 THEN Len(data) - 1 ELSE 0)

\* the comparison of part_005:478 with the threshold included
IsSmallPayload_le(data) == JsonLength(data) <= FAST_TIER_LIMIT

\* part_005:478  if (dataSize < 1000000)
IsSmallPayload(data) == JsonLength(data) < FAST_TIER_LIMIT

\* part_005:439-464  one element of processedData
ProcessItem(item, accountId, csvType) ==
  LET processed == [item EXCEPT !.accountId = accountId] IN
  IF csvType = OVERVIEW /\ processed.date # Absent
    THEN IF IsParseableDate(processed.date)
           THEN [processed EXCEPT !.date = ToISOString(processed.date)]
           ELSE processed
    ELSE IF csvType = VIDEO /\ processed.publish_time # Absent
      THEN IF IsParseableDate(processed.publish_time)
             THEN [processed EXCEPT !.publish_time = ToISOString(processed.publish_time)]
             ELSE processed
      ELSE processed

ProcessedData(data, accountId, csvType) ==
  [i \in 1..Len(data) |-> ProcessItem(data[i], accountId, csvType)]

\* part_005:544-547 and 562-565  data.map(item => ({...item, accountId}))
StampRows(data, accountId) ==
  [i \in 1..Len(data) |-> [data[i] EXCEPT !.accountId = accountId]]

\* Records of a store in key order, as getAll() returns them
RECURSIVE InKeyOrder(_)
InKeyOrder(recs) ==
  IF recs = {} THEN <<>>
  ELSE LET r == CHOOSE x \in recs : \A y \in recs : x.id <= y.id
       IN <<r>> \o InKeyOrder(recs \ {r})

KeysOf(seq) == [i \in 1..Len(seq) |-> seq[i].id]

\* index.getAll(accountId) on a data store (part_005:112-123)
GetByIndex(csvType, accountId) ==
  InKeyOrder({r \in idbData[csvType] : r.accountId = accountId})

\* the sort of part_005:538 in ascending order: the oldest record first
NewestFirst_oldest(seq) ==
  CHOOSE i \in 1..Len(seq) :
    \A j \in 1..Len(seq) :
      \/ seq[i].timestamp < seq[j].timestamp
      \/ seq[i].timestamp = seq[j].timestamp /\ i <= j

\* indexedDBData.sort((a, b) => b.timestamp - a.timestamp)[0]  (part_005:538)
\* the sort is stable, so among equal timestamps the lowest key stays first
NewestFirst(seq) ==
  CHOOSE i \in 1..Len(seq) :
    \A j \in 1..Len(seq) :
      \/ seq[i].timestamp > seq[j].timestamp
      \/ seq[i].timestamp = seq[j].timestamp /\ i <= j

\* getAccountData once the index read has answered (part_005:536-569);
\* lsOk is FALSE when reading localStorage throws (part_005:230-238)
GetAccountDataResult(accountId, csvType, lsOk) ==
  LET indexedDBData == GetByIndex(csvType, accountId)
      localData == IF lsOk THEN lsData[accountId][csvType] ELSE NoSnap
  IN IF Len(indexedDBData) > 0
       THEN StampRows(indexedDBData[NewestFirst(indexedDBData)].data, accountId)
       ELSE IF localData # NoSnap
         THEN StampRows(localData.data, accountId)
         ELSE <<>>

\* {...a, ...b} for two account objects
Spread(a, b) == [f \in DOMAIN a |-> IF f \in DOMAIN b THEN b[f] ELSE a[f]]

\* accounts.findIndex(a => a.id === id), 0 for -1
FindIndex(accounts, id) ==
  IF \E i \in 1..Len(accounts) : accounts[i].id = id
    THEN CHOOSE i \in 1..Len(accounts) :
           accounts[i].id = id /\ \A j \in 1..(i-1) : accounts[j].id # id
    ELSE 0

\* Date.now().toString() (part_005:290); ids are the clock values themselves
NewAccountId(clock) == clock

\* part_005:280-292  the account that is stored, with its id
AccountToStore(account, clock) ==
  IF account.id # NoId THEN account ELSE [account EXCEPT !.id = NewAccountId(clock)]

\* part_005:280-292  the accounts array after the update or the push
AccountsAfterSave(accounts, account, clock) ==
  IF account.id # NoId
    THEN LET index == FindIndex(accounts, account.id) IN
         IF index # 0
           THEN [accounts EXCEPT ![index] = Spread(accounts[index], account)]
           ELSE Append(accounts, account)
    ELSE Append(accounts, AccountToStore(account, clock))

\* part_005:316  accounts.filter(a => a.id !== accountId)
AccountsWithout(accounts, accountId) ==
  SelectSeq(accounts, LAMBDA a : a.id # accountId)

\* part_005:501-503 with 371-374  {...account, ...dataStatus}
WithDataStatus(account, csvType) ==
  IF csvType = OVERVIEW THEN [account EXCEPT !.hasOverviewData = TRUE]
                        ELSE [account EXCEPT !.hasVideoData = TRUE]

\* store.put(record) on the accounts store (keyPath id)
PutAccount(store, account) == {a \in store : a.id # account.id} \cup {account}

\* getAccounts() as it answers in the current state when no read fails
\* (part_005:248-268)
GetAccountsResult ==
  IF Len(lsAccounts) > 0 THEN lsAccounts ELSE InKeyOrder(idbAccounts)

\* the structure of part_005:743-748 without its error property
StatsOnError_noflag ==
  [error |-> FALSE, used |-> 0, accountsCount |-> 0, overviewDataCount |-> 0, videoDataCount |-> 0]

\* part_005:743-748  the structure returned from the catch block
StatsOnError ==
  [error |-> TRUE, used |-> 0, accountsCount |-> 0, overviewDataCount |-> 0, videoDataCount |-> 0]

\* part_005:693-700  entries under the tiktok_stats_ prefix (each counted once)
LocalStorageUsed ==
  (IF Len(lsAccounts) > 0 THEN 1 ELSE 0)
  + Cardinality({k \in AccountIds \X CSV_TYPES : lsData[k[1]][k[2]] # NoSnap})
  + Cardinality({c \in CSV_TYPES : lsMappings[c] # Absent})


\* ------------------------------------------------- calls and results ---
\* A slot of procs.  pc is the request the call is waiting for; the other
\* fields are the call's arguments and local variables.  The fields from
\* durFail on record facts about the call for the properties:
\*   durFail      a write request to IndexedDB (or to the only store of the
\*                data) failed during the call
\*   wroteFast    the call stored its snapshot in localStorage
\*   fastFail     the call's localStorage.setItem of the snapshot threw
\*   before       what getAccountData answered when the call was made
\*   hadRec       the data store held a record for the key at that time
\*   quiet        no other call was in flight at that time
\*   afterSave    see FollowsSave; prevRows are the rows of that save
\*   hadBoth      see SavedBoth
\*   lsReadFail, idbReadFail   a read of that store failed during the call
\*   mapOut       the table getCurrentMappings returned
\*   afterWrite   see FollowsWrite; written is the table of that write
Idle ==
  [op |-> "idle", pc |-> "idle", acc |-> NoId, cat |-> Absent, rows |-> <<>>,
   ts |-> 0, account |-> NoAccount, accounts |-> <<>>, items |-> <<>>,
   items2 |-> <<>>, stats |-> NoStats, mapping |-> Absent,
   durFail |-> FALSE, wroteFast |-> FALSE, before |-> <<>>,
   hadRec |-> FALSE, quiet |-> FALSE, afterSave |-> FALSE, prevRows |-> <<>>,
   hadBoth |-> FALSE, lsReadFail |-> FALSE, idbReadFail |-> FALSE,
   fastFail |-> FALSE, mapOut |-> Absent, afterWrite |-> FALSE, written |-> Absent]

\* What a returned call leaves in hist: the call, and its result
\*   ok        resolved with true / with the stored value
\*   rejected  the promise rejected
\*   err       console.error was called from a catch block
Result(proc, ok, rejected, err, rowsOut, listOut, statsOut) ==
  [op |-> proc.op, acc |-> proc.acc, cat |-> proc.cat, rows |-> proc.rows,
   mapping |-> proc.mapping, account |-> proc.account,
   ok |-> ok, rejected |-> rejected, err |-> err,
   rowsOut |-> rowsOut, listOut |-> listOut, stats |-> statsOut,
   durFail |-> proc.durFail, wroteFast |-> proc.wroteFast,
   before |-> proc.before, hadRec |-> proc.hadRec, quiet |-> proc.quiet,
   afterSave |-> proc.afterSave, prevRows |-> proc.prevRows,
   hadBoth |-> proc.hadBoth, lsReadFail |-> proc.lsReadFail,
   idbReadFail |-> proc.idbReadFail, fastFail |-> proc.fastFail,
   mapOut |-> proc.mapOut, afterWrite |-> proc.afterWrite, written |-> proc.written]

AllIdle == \A q \in Procs : procs[q].op = "idle"

\* a call in flight returns
Returns(p, result) ==
  /\ procs' = [procs EXCEPT ![p] = Idle]
  /\ hist' = Append(hist, result)

\* a call in flight goes on to its next request
Continues(p, proc) ==
  /\ procs' = [procs EXCEPT ![p] = proc]
  /\ UNCHANGED hist

\* hist starts again when a call is made while nothing is in flight
HistAtStart == IF AllIdle THEN <<>> ELSE hist

\* a new call reaches its first request
Begins(p, proc) ==
  /\ procs' = [procs EXCEPT ![p] = proc]
  /\ hist' = HistAtStart

\* a new call returns without waiting for a request
BeginsAndReturns(p, result) ==
  /\ UNCHANGED procs
  /\ hist' = Append(HistAtStart, result)

ReturnsBool(p, proc, b) == Returns(p, Result(proc, b, FALSE, ~b, <<>>, <<>>, NoStats))

\* A request of kind k may fail in this step
FaultChoices(kinds) == IF faultsLeft > 0 THEN kinds \cup {"none"} ELSE {"none"}
Count(fk) == faultsLeft' = faultsLeft - (IF fk = "none" THEN 0 ELSE 1)

\* the caller makes a call in the first free slot
CanStart(p) ==
  /\ procs[p].op = "idle"
  /\ \A q \in Procs : q < p => procs[q].op # "idle"
  /\ Cardinality({q \in Procs : procs[q].op # "idle"}) < par
  /\ opsLeft > 0

\* the call that returned last, when nothing is in flight
LastResult == hist[Len(hist)]

\* localStorage.setItem inside saveToLocalStorage (part_005:214-222):
\* the value written, or the old value when setItem throws
SaveToLocalStorage(old, new, fk) == IF fk = "lsw" THEN old ELSE new

\* getFromLocalStorage(ACCOUNTS, []) (part_005:230-238)
ReadLsAccounts(fk) == IF fk = "lsr" THEN <<>> ELSE lsAccounts

\* --------------------------------------------------------- the clock ---
\* Date.now() at a place that reads it: the value of the last reading, or a
\* later one
ClockReadings == {t \in {now, now + 1} : t <= MaxClock}


\* no editor is mounted, no function of the data processor is being called
NoEdit == [orig |-> Absent, field |-> Absent, value |-> Absent, before |-> <<>>]
NoEditor == [mappings |-> <<>>, error |-> Absent, edits |-> 0, last |-> NoEdit]
NoCalc == [fn |-> Absent]

\* the variables no storage call changes
budget == <<par, editor, calc>>

\* ---------------------------------------------------- saveAccountData ---
\* the call is made right after a saveAccountData for the same account and
\* type has returned true
FollowsSave(accountId, csvType) ==
  /\ AllIdle
  /\ hist # <<>>
  /\ LastResult.op = "saveAccountData"
  /\ LastResult.acc = accountId
  /\ LastResult.cat = csvType
  /\ LastResult.ok

\* part_005:425-492: up to the first await (getByIndex)
StartSaveAccountData(p, accountId, csvType, data) ==
  /\ CanStart(p)
  /\ \E fk \in FaultChoices({"lsw"}), t \in ClockReadings :
       LET small == IsSmallPayload(data)
           dataWithMeta == [accountId |-> accountId, dataType |-> csvType,
                            timestamp |-> t,
                            data |-> ProcessedData(data, accountId, csvType)]
       IN /\ Count(fk)
          /\ fk = "lsw" => small
          /\ now' = t
          /\ lsData' = IF small
                         THEN [lsData EXCEPT ![accountId][csvType] =
                                 SaveToLocalStorage(@, dataWithMeta, fk)]
                         ELSE lsData
          /\ Begins(p, [Idle EXCEPT !.op = "saveAccountData", !.pc = "sd_read",
                          !.acc = accountId, !.cat = csvType, !.rows = data,
                          !.ts = t,
                          !.wroteFast = small /\ fk # "lsw",
                          !.fastFail = (fk = "lsw"),
                          !.before = GetAccountDataResult(accountId, csvType, TRUE),
                          !.hadRec = Len(GetByIndex(csvType, accountId)) > 0,
                          !.quiet = AllIdle,
                          !.afterSave = FollowsSave(accountId, csvType),
                          !.prevRows = IF FollowsSave(accountId, csvType)
                                         THEN LastResult.rows ELSE <<>>])
  /\ opsLeft' = opsLeft - 1
  /\ UNCHANGED <<lsAccounts, lsMappings, cachedMappings, idbAccounts, idbData,
                 nextKey, budget>>

\* part_005:492-495 finding nothing to delete
ExistingItems_none(csvType, accountId) == <<>>

\* part_005:492  existingItems, as keys
ExistingItems(csvType, accountId) == KeysOf(GetByIndex(csvType, accountId))

\* part_005:492-493: existingItems arrives
SdRead(p) ==
  /\ procs[p].op = "saveAccountData" /\ procs[p].pc = "sd_read"
  /\ \E fk \in FaultChoices({"idb"}) :
       /\ Count(fk)
       /\ IF fk = "idb"
            THEN ReturnsBool(p, procs[p], FALSE)
            ELSE LET existingItems == ExistingItems(procs[p].cat, procs[p].acc)
                 IN Continues(p, [procs[p] EXCEPT
                       !.items = existingItems,
                       !.pc = IF existingItems = <<>> THEN "sd_put" ELSE "sd_del"])
  /\ UNCHANGED <<now, lsAccounts, lsData, lsMappings, cachedMappings, idbAccounts,
                 idbData, nextKey, opsLeft, budget>>

\* part_005:493-495: one deleteById of the loop answers
SdDel(p) ==
  /\ procs[p].op = "saveAccountData" /\ procs[p].pc = "sd_del"
  /\ \E fk \in FaultChoices({"idb"}) :
       /\ Count(fk)
       /\ IF fk = "idb"
            THEN /\ ReturnsBool(p, [procs[p] EXCEPT !.durFail = TRUE], FALSE)
                 /\ UNCHANGED idbData
            ELSE /\ idbData' = [idbData EXCEPT ![procs[p].cat] =
                                  {r \in @ : r.id # Head(procs[p].items)}]
                 /\ Continues(p, [procs[p] EXCEPT
                       !.items = Tail(procs[p].items),
                       !.pc = IF Tail(procs[p].items) = <<>> THEN "sd_put" ELSE "sd_del"])
  /\ UNCHANGED <<now, lsAccounts, lsData, lsMappings, cachedMappings, idbAccounts,
                 nextKey, opsLeft, budget>>

\* part_005:498-505 and 363-365: the put answers, getAccount is called
SdPut(p) ==
  /\ procs[p].op = "saveAccountData" /\ procs[p].pc = "sd_put"
  /\ \E fk \in FaultChoices({"idb"}) :
       /\ Count(fk)
       /\ IF fk = "idb"
            THEN /\ ReturnsBool(p, [procs[p] EXCEPT !.durFail = TRUE], FALSE)
                 /\ UNCHANGED <<idbData, nextKey>>
            ELSE LET c == procs[p].cat
                     dataWithMeta ==
                       [id |-> nextKey[c], accountId |-> procs[p].acc, dataType |-> c,
                        timestamp |-> procs[p].ts,
                        data |-> ProcessedData(procs[p].rows, procs[p].acc, c)]
                 IN /\ idbData' = [idbData EXCEPT ![c] = @ \cup {dataWithMeta}]
                    /\ nextKey' = [nextKey EXCEPT ![c] = @ + 1]
                    /\ Continues(p, [procs[p] EXCEPT !.pc = "sd_getacc"])
  /\ UNCHANGED <<now, lsAccounts, lsData, lsMappings, cachedMappings, idbAccounts,
                 opsLeft, budget>>

\* getAccount (part_005:339-355) as updateAccountDataStatus sees it: the
\* record of the accounts store, else the entry of the localStorage array,
\* else null
GetAccount(accountId, fk) ==
  IF fk = "idb" THEN NoAccount
  ELSE IF \E a \in idbAccounts : a.id = accountId
    THEN CHOOSE a \in idbAccounts : a.id = accountId
    ELSE LET accounts == ReadLsAccounts(fk)
             index == FindIndex(accounts, accountId)
         IN IF index # 0 THEN accounts[index] ELSE NoAccount

\* part_005:365-376 and 275-295: getById answers; updateAccountDataStatus
\* builds updatedAccount and saveAccount runs up to its first request
SdGetAcc(p) ==
  /\ procs[p].op = "saveAccountData" /\ procs[p].pc = "sd_getacc"
  /\ \E fk \in FaultChoices({"idb", "lsr"}) :
       LET account == GetAccount(procs[p].acc, fk)
           updatedAccount == WithDataStatus(account, procs[p].cat)
           accounts == ReadLsAccounts(fk)
       IN /\ Count(fk)
          /\ fk = "lsr" => Len(lsAccounts) > 0
          /\ IF account = NoAccount
               THEN ReturnsBool(p, procs[p], FALSE)
               ELSE IF Len(accounts) > 0
                 THEN Continues(p, [procs[p] EXCEPT
                        !.account = updatedAccount,
                        !.accounts = AccountsAfterSave(accounts, updatedAccount, now),
                        !.pc = "accput"])
                 ELSE Continues(p, [procs[p] EXCEPT
                        !.account = updatedAccount, !.pc = "getall"])
  /\ UNCHANGED <<now, lsAccounts, lsData, lsMappings, cachedMappings, idbAccounts,
                 idbData, nextKey, opsLeft, budget>>

\* ------------------------------------- getAccounts inside other calls ---
\* part_005:254-261: getAllFromIndexedDB answers inside getAccounts, and
\* the caller (getAccounts itself, saveAccount, deleteAccount) goes on to
\* its next request
GetAll(p) ==
  /\ procs[p].pc = "getall"
  /\ \E fk \in FaultChoices({"idb", "lsw"}),
        t \in IF procs[p].account.id = NoId /\ procs[p].op = "saveAccount"
                THEN ClockReadings ELSE {now} :
       LET accounts == IF fk = "idb" THEN <<>> ELSE InKeyOrder(idbAccounts)
           proc == procs[p]
       IN /\ Count(fk)
          /\ fk = "lsw" => Len(accounts) > 0
          /\ now' = t
          /\ lsAccounts' = IF Len(accounts) > 0
                             THEN SaveToLocalStorage(lsAccounts, accounts, fk)
                             ELSE lsAccounts
          /\ CASE proc.op = "getAccounts" ->
                    Returns(p, Result([proc EXCEPT !.idbReadFail = (fk = "idb")],
                                      TRUE, FALSE, fk = "idb", <<>>, accounts, NoStats))
               [] proc.op \in {"saveAccount", "saveAccountData"} ->
                    Continues(p, [proc EXCEPT
                      !.account = AccountToStore(proc.account, t),
                      !.accounts = AccountsAfterSave(accounts, proc.account, t),
                      !.pc = "accput"])
               [] proc.op = "deleteAccount" ->
                    Continues(p, [proc EXCEPT
                      !.accounts = AccountsWithout(accounts, proc.acc),
                      !.pc = "da_delacc"])
  /\ UNCHANGED <<lsData, lsMappings, cachedMappings, idbAccounts, idbData,
                 nextKey, opsLeft, budget>>

\* part_005:295-298: saveToIndexedDB(STORE_ACCOUNTS, account) answers, the
\* array goes to localStorage; saveAccount returns, and with it
\* updateAccountDataStatus and saveAccountData (part_005:505-508)
AccPut(p) ==
  /\ procs[p].pc = "accput"
  /\ \E fk \in FaultChoices({"idb", "lsw"}) :
       LET proc == procs[p] IN
       /\ Count(fk)
       /\ IF fk = "idb"
            THEN /\ UNCHANGED <<idbAccounts, lsAccounts>>
                 /\ IF proc.op = "saveAccount"
                      THEN Returns(p, Result([proc EXCEPT !.durFail = TRUE],
                                             FALSE, TRUE, TRUE, <<>>, <<>>, NoStats))
                      ELSE ReturnsBool(p, [proc EXCEPT !.durFail = TRUE], FALSE)
            ELSE /\ idbAccounts' = PutAccount(idbAccounts, proc.account)
                 /\ lsAccounts' = SaveToLocalStorage(lsAccounts, proc.accounts, fk)
                 /\ ReturnsBool(p, proc, TRUE)
  /\ UNCHANGED <<now, lsData, lsMappings, cachedMappings, idbData, nextKey,
                 opsLeft, budget>>

\* -------------------------------------------------------- saveAccount ---
\* createAccount passes a new object without id (useAccountManager.js:83-89);
\* an edit passes a stored account with another name (:127-131)
NewAccount == [id |-> NoId, name |-> "n1", hasOverviewData |-> FALSE, hasVideoData |-> FALSE]

SaveAccountInputs ==
  {NewAccount}
  \cup {[GetAccountsResult[i] EXCEPT !.name = "n2"] : i \in 1..Len(GetAccountsResult)}

\* part_005:275-295: up to the first request
StartSaveAccount(p, account) ==
  /\ CanStart(p)
  /\ \E fk \in FaultChoices({"lsr"}),
        t \in IF account.id = NoId THEN ClockReadings ELSE {now} :
       LET accounts == ReadLsAccounts(fk)
           proc == [Idle EXCEPT !.op = "saveAccount", !.acc = account.id,
                                !.account = account, !.quiet = AllIdle]
       IN /\ Count(fk)
          /\ fk = "lsr" => Len(lsAccounts) > 0
          /\ IF Len(accounts) > 0
               THEN /\ now' = t
                    /\ Begins(p, [proc EXCEPT
                         !.account = AccountToStore(account, t),
                         !.accounts = AccountsAfterSave(accounts, account, t),
                         !.pc = "accput"])
               ELSE /\ t = now
                    /\ UNCHANGED now
                    /\ Begins(p, [proc EXCEPT !.pc = "getall"])
  /\ opsLeft' = opsLeft - 1
  /\ UNCHANGED <<lsAccounts, lsData, lsMappings, cachedMappings, idbAccounts,
                 idbData, nextKey, budget>>

\* ------------------------------------------------------ deleteAccount ---
\* both saves of the account's data have returned true: its stored record
\* carries both flags and each data store holds a record of the account
SavedBoth(accountId) ==
  /\ \E a \in idbAccounts : a.id = accountId /\ a.hasOverviewData /\ a.hasVideoData
  /\ \A c \in CSV_TYPES : Len(GetByIndex(c, accountId)) > 0

\* part_005:310-319: up to the first request
StartDeleteAccount(p, accountId) ==
  /\ CanStart(p)
  /\ \E fk \in FaultChoices({"lsr"}) :
       LET accounts == ReadLsAccounts(fk)
           proc == [Idle EXCEPT !.op = "deleteAccount", !.acc = accountId,
                                !.quiet = AllIdle,
                                !.hadBoth = SavedBoth(accountId)]
       IN /\ Count(fk)
          /\ fk = "lsr" => Len(lsAccounts) > 0
          /\ IF Len(accounts) > 0
               THEN Begins(p, [proc EXCEPT
                      !.accounts = AccountsWithout(accounts, accountId),
                      !.pc = "da_delacc"])
               ELSE Begins(p, [proc EXCEPT !.pc = "getall"])
  /\ opsLeft' = opsLeft - 1
  /\ UNCHANGED <<now, lsAccounts, lsData, lsMappings, cachedMappings, idbAccounts,
                 idbData, nextKey, budget>>

\* part_005:319-322: deleteById(STORE_ACCOUNTS) answers
DaDelAcc(p) ==
  /\ procs[p].op = "deleteAccount" /\ procs[p].pc = "da_delacc"
  /\ \E fk \in FaultChoices({"idb"}) :
       /\ Count(fk)
       /\ IF fk = "idb"
            THEN /\ ReturnsBool(p, [procs[p] EXCEPT !.durFail = TRUE], FALSE)
                 /\ UNCHANGED idbAccounts
            ELSE /\ idbAccounts' = {a \in idbAccounts : a.id # procs[p].acc}
                 /\ Continues(p, [procs[p] EXCEPT !.pc = "da_readov"])
  /\ UNCHANGED <<now, lsAccounts, lsData, lsMappings, cachedMappings, idbData,
                 nextKey, opsLeft, budget>>

\* part_005:194-201 then 325-327: deleteAccountData caught an error and
\* returned {overview: false, video: false}; deleteAccount ignores the value
DeleteDataFailed(p, isWrite) ==
  /\ lsAccounts' = procs[p].accounts
  /\ ReturnsBool(p, [procs[p] EXCEPT !.durFail = isWrite, !.idbReadFail = ~isWrite], TRUE)
  /\ UNCHANGED <<lsData, idbData>>

\* part_005:183-193 then 325-327: the loops are over; the snapshots are
\* removed, the accounts array is written back, deleteAccount returns true
DeleteDataDone(p, fk) ==
  /\ lsData' = [lsData EXCEPT ![procs[p].acc] = [c \in CSV_TYPES |-> NoSnap]]
  /\ lsAccounts' = SaveToLocalStorage(lsAccounts, procs[p].accounts, fk)
  /\ ReturnsBool(p, procs[p], TRUE)

\* where deleteAccountData goes after a request, given what is left to delete
DeleteDataNext(p, proc, fk) ==
  IF proc.items # <<>>
    THEN /\ Continues(p, [proc EXCEPT !.pc = "da_delov"])
         /\ fk # "lsw"
         /\ UNCHANGED <<lsData, lsAccounts>>
    ELSE IF proc.items2 # <<>>
      THEN /\ Continues(p, [proc EXCEPT !.pc = "da_delvid"])
           /\ fk # "lsw"
           /\ UNCHANGED <<lsData, lsAccounts>>
      ELSE DeleteDataDone(p, fk)

\* part_005:169: the overview records of the account arrive
DaReadOv(p) ==
  /\ procs[p].op = "deleteAccount" /\ procs[p].pc = "da_readov"
  /\ \E fk \in FaultChoices({"idb"}) :
       /\ Count(fk)
       /\ IF fk = "idb"
            THEN DeleteDataFailed(p, FALSE)
            ELSE /\ Continues(p, [procs[p] EXCEPT
                       !.items = KeysOf(GetByIndex(OVERVIEW, procs[p].acc)),
                       !.pc = "da_readvid"])
                 /\ UNCHANGED <<lsData, lsAccounts, idbData>>
  /\ UNCHANGED <<now, lsMappings, cachedMappings, idbAccounts, nextKey, opsLeft, budget>>

\* part_005:170: the video records of the account arrive
DaReadVid(p) ==
  /\ procs[p].op = "deleteAccount" /\ procs[p].pc = "da_readvid"
  /\ \E fk \in FaultChoices({"idb", "lsw"}) :
       /\ Count(fk)
       /\ IF fk = "idb"
            THEN DeleteDataFailed(p, FALSE)
            ELSE /\ DeleteDataNext(p, [procs[p] EXCEPT
                       !.items2 = KeysOf(GetByIndex(VIDEO, procs[p].acc))], fk)
                 /\ UNCHANGED idbData
  /\ UNCHANGED <<now, lsMappings, cachedMappings, idbAccounts, nextKey, opsLeft, budget>>

\* part_005:173-175: one deleteById of the overview loop answers
DaDelOv(p) ==
  /\ procs[p].op = "deleteAccount" /\ procs[p].pc = "da_delov"
  /\ \E fk \in FaultChoices({"idb", "lsw"}) :
       /\ Count(fk)
       /\ IF fk = "idb"
            THEN DeleteDataFailed(p, TRUE)
            ELSE /\ idbData' = [idbData EXCEPT ![OVERVIEW] =
                                  {r \in @ : r.id # Head(procs[p].items)}]
                 /\ DeleteDataNext(p, [procs[p] EXCEPT !.items = Tail(procs[p].items)], fk)
  /\ UNCHANGED <<now, lsMappings, cachedMappings, idbAccounts, nextKey, opsLeft, budget>>

\* part_005:178-180: one deleteById of the video loop answers
DaDelVid(p) ==
  /\ procs[p].op = "deleteAccount" /\ procs[p].pc = "da_delvid"
  /\ \E fk \in FaultChoices({"idb", "lsw"}) :
       /\ Count(fk)
       /\ IF fk = "idb"
            THEN DeleteDataFailed(p, TRUE)
            ELSE /\ idbData' = [idbData EXCEPT ![VIDEO] =
                                  {r \in @ : r.id # Head(procs[p].items2)}]
                 /\ DeleteDataNext(p, [procs[p] EXCEPT !.items2 = Tail(procs[p].items2)], fk)
  /\ UNCHANGED <<now, lsMappings, cachedMappings, idbAccounts, nextKey, opsLeft, budget>>

\* ----------------------------------------------------- getAccountData ---
\* part_005:521-534: up to the getByIndex request
StartGetAccountData(p, accountId, csvType) ==
  /\ CanStart(p)
  /\ Begins(p, [Idle EXCEPT !.op = "getAccountData", !.pc = "ld_read",
                            !.acc = accountId, !.cat = csvType,
                            !.quiet = AllIdle])
  /\ opsLeft' = opsLeft - 1
  /\ UNCHANGED <<now, lsAccounts, lsData, lsMappings, cachedMappings, idbAccounts,
                 idbData, nextKey, faultsLeft, budget>>

\* part_005:534-573: the index read answers (or rejects, which the catch
\* block turns into an empty array)
LdRead(p) ==
  /\ procs[p].op = "getAccountData" /\ procs[p].pc = "ld_read"
  /\ \E fk \in FaultChoices({"idb", "lsr"}) :
       /\ Count(fk)
       /\ fk = "lsr" => Len(GetByIndex(procs[p].cat, procs[p].acc)) = 0
       /\ IF fk = "idb"
            THEN Returns(p, Result([procs[p] EXCEPT !.idbReadFail = TRUE],
                                   TRUE, FALSE, TRUE, <<>>, <<>>, NoStats))
            ELSE Returns(p, Result([procs[p] EXCEPT !.lsReadFail = (fk = "lsr")],
                                   TRUE, FALSE, FALSE,
                           GetAccountDataResult(procs[p].acc, procs[p].cat, fk # "lsr"),
                           <<>>, NoStats))
  /\ UNCHANGED <<now, lsAccounts, lsData, lsMappings, cachedMappings, idbAccounts,
                 idbData, nextKey, opsLeft, budget>>

\* -------------------------------------------------------- getAccounts ---
\* part_005:248-268 called on its own: answers at once from localStorage
\* when the array there is not empty, else asks the accounts store
StartGetAccounts(p) ==
  /\ CanStart(p)
  /\ \E fk \in FaultChoices({"lsr"}) :
       LET accounts == ReadLsAccounts(fk)
           proc == [Idle EXCEPT !.op = "getAccounts", !.quiet = AllIdle]
       IN /\ Count(fk)
          /\ fk = "lsr" => Len(lsAccounts) > 0
          /\ IF Len(accounts) > 0
               THEN BeginsAndReturns(p, Result(proc, TRUE, FALSE, FALSE, <<>>, accounts, NoStats))
               ELSE Begins(p, [proc EXCEPT !.pc = "getall", !.lsReadFail = (fk = "lsr")])
  /\ opsLeft' = opsLeft - 1
  /\ UNCHANGED <<now, lsAccounts, lsData, lsMappings, cachedMappings, idbAccounts,
                 idbData, nextKey, budget>>

\* ---------------------------------------------------- getStorageStats ---
\* part_005:690-711: the localStorage loop, then the first getAll request
StartGetStorageStats(p) ==
  /\ CanStart(p)
  /\ \E fk \in FaultChoices({"lsr"}) :
       LET proc == [Idle EXCEPT !.op = "getStorageStats", !.quiet = AllIdle]
       IN /\ Count(fk)
          /\ IF fk = "lsr"
               THEN BeginsAndReturns(p, Result([proc EXCEPT !.lsReadFail = TRUE],
                                               TRUE, FALSE, TRUE, <<>>, <<>>, StatsOnError))
               ELSE Begins(p, [proc EXCEPT !.pc = "st_acc",
                                           !.stats.used = LocalStorageUsed])
  /\ opsLeft' = opsLeft - 1
  /\ UNCHANGED <<now, lsAccounts, lsData, lsMappings, cachedMappings, idbAccounts,
                 idbData, nextKey, budget>>

\* part_005:711-740: one of the three getAll requests answers
StRead(p) ==
  /\ procs[p].op = "getStorageStats"
  /\ \E fk \in FaultChoices({"idb"}) :
       LET proc == procs[p] IN
       /\ Count(fk)
       /\ IF fk = "idb"
            THEN Returns(p, Result([proc EXCEPT !.idbReadFail = TRUE],
                                   TRUE, FALSE, TRUE, <<>>, <<>>, StatsOnError))
            ELSE CASE proc.pc = "st_acc" ->
                        Continues(p, [proc EXCEPT
                          !.stats.accountsCount = Cardinality(idbAccounts),
                          !.pc = "st_ov"])
                   [] proc.pc = "st_ov" ->
                        Continues(p, [proc EXCEPT
                          !.stats.overviewDataCount = Cardinality(idbData[OVERVIEW]),
                          !.pc = "st_vid"])
                   [] proc.pc = "st_vid" ->
                        Returns(p, Result(proc, TRUE, FALSE, FALSE, <<>>, <<>>,
                          [proc.stats EXCEPT !.videoDataCount = Cardinality(idbData[VIDEO])]))
  /\ UNCHANGED <<now, lsAccounts, lsData, lsMappings, cachedMappings, idbAccounts,
                 idbData, nextKey, opsLeft, budget>>

\* ----------------------------------------------------- updateMappings ---
\* columnMappingService.js:184-197 with part_005:406-412: saveColumnMappings
\* resolves to the boolean of saveToLocalStorage, which updateMappings does
\* not look at; the cache is set and true is returned
UpdateMappings(p, csvType, mappings) ==
  /\ CanStart(p)
  /\ \E fk \in FaultChoices({"lsw"}) :
       /\ Count(fk)
       /\ lsMappings' = [lsMappings EXCEPT ![csvType] = SaveToLocalStorage(@, mappings, fk)]
       /\ cachedMappings' = [cachedMappings EXCEPT ![csvType] = mappings]
       /\ BeginsAndReturns(p, Result([Idle EXCEPT !.op = "updateMappings", !.cat = csvType,
                                         !.mapping = mappings,
                                         !.durFail = (fk = "lsw"),
                                         !.quiet = AllIdle],
                            TRUE, FALSE, FALSE, <<>>, <<>>, NoStats))
  /\ opsLeft' = opsLeft - 1
  /\ UNCHANGED <<now, lsAccounts, lsData, idbAccounts, idbData, nextKey, budget>>

\* ------------------------------------------- the other mapping calls ---
\* tables a caller writes; getDefaultMappings(csvType, true) is a third one
\* (columnMappingService.js:46-80)
MappingTables == {"mapA", "mapB"}
DefaultMappings(csvType) == <<"default", csvType>>

\* JSON.stringify of a table, and a file content that is not JSON
Stringify(mappings) == <<"json", mappings>>
NotJson == <<"text", "{">>
FileContents == {Stringify(m) : m \in MappingTables} \cup {NotJson}

\* JSON.parse(content) (electronApiEmulator.js:66) where it does not throw
IsJson(content) == content[1] = "json"
ParseJson(content) == content[2]

\* getColumnMappings (part_005:392-398): the stored table, {} when the key is
\* missing or the read throws; then columnMappingService.js:159-161
StoredOrDefault(csvType, fk) ==
  IF fk = "lsr" \/ lsMappings[csvType] = Absent
    THEN DefaultMappings(csvType)
    ELSE lsMappings[csvType]

\* the calls that write a mapping table
MappingWrites == {"updateMappings", "resetMappings", "writeFile"}

\* the call is made right after a write of the type's table has stored it
FollowsWrite(csvType) ==
  /\ AllIdle
  /\ hist # <<>>
  /\ LastResult.op \in MappingWrites
  /\ LastResult.cat = csvType
  /\ LastResult.ok /\ ~LastResult.rejected /\ ~LastResult.durFail

\* columnMappingService.js:148-176
GetCurrentMappings(p, csvType) ==
  /\ CanStart(p)
  /\ \E fk \in FaultChoices({"lsr"}) :
       LET cached == cachedMappings[csvType]
           mappings == IF cached # Absent THEN cached ELSE StoredOrDefault(csvType, fk)
       IN /\ Count(fk)
          /\ fk = "lsr" => (cached = Absent /\ lsMappings[csvType] # Absent)
          /\ cachedMappings' = [cachedMappings EXCEPT ![csvType] = mappings]
          /\ BeginsAndReturns(p, Result([Idle EXCEPT !.op = "getCurrentMappings",
                                            !.cat = csvType, !.mapOut = mappings,
                                            !.lsReadFail = (fk = "lsr"),
                                            !.afterWrite = FollowsWrite(csvType),
                                            !.written = IF FollowsWrite(csvType)
                                                          THEN LastResult.mapping ELSE Absent,
                                            !.quiet = AllIdle],
                               TRUE, FALSE, FALSE, <<>>, <<>>, NoStats))
  /\ opsLeft' = opsLeft - 1
  /\ UNCHANGED <<now, lsAccounts, lsData, lsMappings, idbAccounts, idbData, nextKey, budget>>

\* columnMappingService.js:204-220
ResetMappings(p, csvType) ==
  /\ CanStart(p)
  /\ \E fk \in FaultChoices({"lsw"}) :
       LET defaultMappings == DefaultMappings(csvType) IN
       /\ Count(fk)
       /\ lsMappings' = [lsMappings EXCEPT ![csvType] = SaveToLocalStorage(@, defaultMappings, fk)]
       /\ cachedMappings' = [cachedMappings EXCEPT ![csvType] = defaultMappings]
       /\ BeginsAndReturns(p, Result([Idle EXCEPT !.op = "resetMappings", !.cat = csvType,
                                         !.mapping = defaultMappings,
                                         !.mapOut = defaultMappings,
                                         !.durFail = (fk = "lsw"),
                                         !.quiet = AllIdle],
                            TRUE, FALSE, FALSE, <<>>, <<>>, NoStats))
  /\ opsLeft' = opsLeft - 1
  /\ UNCHANGED <<now, lsAccounts, lsData, idbAccounts, idbData, nextKey, budget>>

\* electronApiEmulator.js:60-84: writeFile on the mapping file of a type
WriteFile(p, csvType, content) ==
  /\ CanStart(p)
  /\ \E fk \in FaultChoices({"lsw"}) :
       LET proc == [Idle EXCEPT !.op = "writeFile", !.cat = csvType, !.quiet = AllIdle] IN
       /\ Count(fk)
       /\ fk = "lsw" => IsJson(content)
       /\ IF IsJson(content)
            THEN /\ lsMappings' = [lsMappings EXCEPT ![csvType] =
                                     SaveToLocalStorage(@, ParseJson(content), fk)]
                 /\ BeginsAndReturns(p, Result([proc EXCEPT !.mapping = ParseJson(content),
                                                            !.durFail = (fk = "lsw")],
                                               TRUE, FALSE, FALSE, <<>>, <<>>, NoStats))
            ELSE /\ UNCHANGED lsMappings
                 /\ BeginsAndReturns(p, Result(proc, FALSE, TRUE, TRUE, <<>>, <<>>, NoStats))
  /\ opsLeft' = opsLeft - 1
  /\ UNCHANGED <<now, lsAccounts, lsData, cachedMappings, idbAccounts, idbData, nextKey, budget>>

\* ------------------------------------------------------ String methods ---

UpperCase ==
  << "A", "B", "C", "D", "E", "F", "G", "H", "I", "J", "K", "L", "M",
     "N", "O", "P", "Q", "R", "S", "T", "U", "V", "W", "X", "Y", "Z" >>

LowerCase ==
  << "a", "b", "c", "d", "e", "f", "g", "h", "i", "j", "k", "l", "m",
     "n", "o", "p", "q", "r", "s", "t", "u", "v", "w", "x", "y", "z" >>

\* the invisible characters of the model: the zero-width space is written "~"
ZeroWidth == "~"

WhiteSpace == {" ", "\t"}

CharAt(s, i) == SubSeq(s, i, i)

LowerOf == [c \in {UpperCase[i] : i \in 1..26} |->
              LowerCase[CHOOSE i \in 1..26 : UpperCase[i] = c]]

LowerChar(c) == IF c \in DOMAIN LowerOf THEN LowerOf[c] ELSE c

\* String.prototype.toLowerCase, on strings whose capitals are A..Z
RECURSIVE ToLowerCase(_)
ToLowerCase(s) ==
  IF Len(s) = 0 THEN ""
  ELSE LowerChar(CharAt(s, 1)) \o ToLowerCase(SubSeq(s, 2, Len(s)))

\* String.prototype.trim
RECURSIVE Trim(_)
Trim(s) ==
  IF Len(s) = 0 THEN s
  ELSE IF CharAt(s, 1) \in WhiteSpace THEN Trim(SubSeq(s, 2, Len(s)))
  ELSE IF CharAt(s, Len(s)) \in WhiteSpace THEN Trim(SubSeq(s, 1, Len(s) - 1))
  ELSE s

\* String.prototype.includes
Includes(s, part) ==
  \E i \in 1..(Len(s) + 1) :
    /\ i + Len(part) - 1 <= Len(s)
    /\ SubSeq(s, i, i + Len(part) - 1) = part

\* ------------------------------------------------------- detectCSVType ---

FACEBOOK == "facebook"
INSTAGRAM == "instagram"
UNKNOWN == "unknown"

\* constants.js:46-77, in the order of Object.entries
IndicatorTypes == <<OVERVIEW, VIDEO, FACEBOOK, INSTAGRAM>>

CSV_TYPE_INDICATORS ==
  [overview |->
     {"Datum", "Målgrupp som nåtts", "Profilvisningar", "Nya följare",
      "Tappade följare", "Videovisningar", "Nettotillväxt",
      "Date", "Reached audience", "Profile views", "New followers",
      "Lost followers", "Video Views", "Net growth"},
   video |->
     {"Videotitel", "Videolänk", "Publiceringstid", "Lägg till i Favoriter",
      "Video title", "Video link", "Publishing time", "Add to favorites"},
   facebook |->
     {"Page name", "Sidnamn", "Facebook Page", "Sida",
      "Page total reach", "Page total impressions",
      "Sidans totala räckvidd", "Sidans totala visningar",
      "Post reach", "Post impressions", "Räckvidd för inlägg",
      "Visningar av inlägg"},
   instagram |->
     {"Instagram username", "Instagram-användarnamn",
      "Profile visits", "Profilbesök",
      "Accounts engaged", "Konton som interagerade",
      "Instagram reach", "Instagram-räckvidd",
      "Impressions", "Stories impressions", "Videovisningar",
      "Followers", "Reach", "Accounts reached"}]

\* part_002:40: headers.map(h => h ? h.trim().toLowerCase() : '')
NormalizedHeaders(headers) ==
  {IF h = "" THEN "" ELSE ToLowerCase(Trim(h)) : h \in headers}

\* indicator.toLowerCase() of part_002:49-50, for every indicator
LowerIndicator ==
  [indicator \in UNION {CSV_TYPE_INDICATORS[t] : t \in DOMAIN CSV_TYPE_INDICATORS}
     |-> ToLowerCase(indicator)]

\* part_002:46-53: the indicators of a type that some header equals or contains
Matches(type, headers) ==
  LET lowered == {ToLowerCase(h) : h \in NormalizedHeaders(headers)}
  IN Cardinality(
       {indicator \in CSV_TYPE_INDICATORS[type] :
          \E header \in lowered :
            \/ header = LowerIndicator[indicator]
            \/ Includes(header, LowerIndicator[indicator])})

\* a loop that replaces the best match on an equal count: the last type
\* with the most matches
BestMatch_last(headers) ==
  LET count == [i \in 1..4 |-> Matches(IndicatorTypes[i], headers)]
      best == CHOOSE i \in 1..4 :
                /\ \A j \in 1..4 : count[j] <= count[i]
                /\ \A j \in (i + 1)..4 : count[j] < count[i]
  IN IF count[best] > 0
     THEN [type |-> IndicatorTypes[best], count |-> count[best]]
     ELSE [type |-> UNKNOWN, count |-> 0]

\* part_002:58-64: the first type with the most matches, unknown if none matches
BestMatch(headers) ==
  LET count == [i \in 1..4 |-> Matches(IndicatorTypes[i], headers)]
      best == CHOOSE i \in 1..4 :
                /\ \A j \in 1..4 : count[j] <= count[i]
                /\ \A j \in 1..(i - 1) : count[j] < count[i]
  IN IF count[best] > 0
     THEN [type |-> IndicatorTypes[best], count |-> count[best]]
     ELSE [type |-> UNKNOWN, count |-> 0]

\* a detection that looks for a title header before a date header
DetectCSVType_titleFirst(headers) ==
  LET normalizedHeaders == NormalizedHeaders(headers)
      bestMatch == BestMatch(headers)
  IN IF bestMatch.count < 2
     THEN IF \E h \in normalizedHeaders :
               \/ h = "videotitel" \/ h = "video title" \/ h = "title"
               \/ Includes(h, "video")
          THEN VIDEO
          ELSE IF \E h \in normalizedHeaders : h = "datum" \/ h = "date"
          THEN OVERVIEW
          ELSE IF \E h \in normalizedHeaders :
                    Includes(h, "facebook") \/ Includes(h, "page")
          THEN FACEBOOK
          ELSE IF \E h \in normalizedHeaders :
                    Includes(h, "instagram") \/ Includes(h, "insta")
          THEN INSTAGRAM
          ELSE UNKNOWN
     ELSE bestMatch.type

\* part_002:34-97 detectCSVType(headers)
DetectCSVType(headers) ==
  LET normalizedHeaders == NormalizedHeaders(headers)
      bestMatch == BestMatch(headers)
  IN IF bestMatch.count < 2
     THEN IF \E h \in normalizedHeaders : h = "datum" \/ h = "date"
          THEN OVERVIEW
          ELSE IF \E h \in normalizedHeaders :
                    \/ h = "videotitel" \/ h = "video title" \/ h = "title"
                    \/ Includes(h, "video")
          THEN VIDEO
          ELSE IF \E h \in normalizedHeaders :
                    Includes(h, "facebook") \/ Includes(h, "page")
          THEN FACEBOOK
          ELSE IF \E h \in normalizedHeaders :
                    Includes(h, "instagram") \/ Includes(h, "insta")
          THEN INSTAGRAM
          ELSE UNKNOWN
     ELSE bestMatch.type

\* part_002:170-194 checkWrongPlatform(csvType): the platform, null for TikTok
CheckWrongPlatform(csvType) ==
  IF csvType = FACEBOOK THEN "Facebook"
  ELSE IF csvType = INSTAGRAM THEN "Instagram"
  ELSE IF csvType = UNKNOWN THEN "Okand"
  ELSE Absent

\* --------------------------------------------------- JavaScript values ---

\* A finite number is kept in hundredths: Fin(150) is 1.5. The model has no
\* number with more than two decimals but the quotient of engagement_rate,
\* which toFixed(2) rounds to two.
Fin(hundredths) == [fin |-> hundredths]
Inf(sign) == [inf |-> sign]
NaN == [nan |-> TRUE]
Str(s) == [str |-> s]
Bool(b) == [bool |-> b]
Null == [null |-> TRUE]
Undefined == [undef |-> TRUE]

IsFin(v) == DOMAIN v = {"fin"}
IsInf(v) == DOMAIN v = {"inf"}
IsNaN(v) == DOMAIN v = {"nan"}
IsStr(v) == DOMAIN v = {"str"}
IsBool(v) == DOMAIN v = {"bool"}

\* typeof v === 'number'
IsNumber(v) == IsFin(v) \/ IsInf(v) \/ IsNaN(v)

\* Number.isFinite(v)
IsFinite(v) == IsFin(v)

\* !v
Falsy(v) ==
  \/ v = Null \/ v = Undefined \/ v = NaN
  \/ v = Fin(0) \/ v = Str("") \/ v = Bool(FALSE)

Digits == <<"0", "1", "2", "3", "4", "5", "6", "7", "8", "9">>

IsDigit(c) == \E i \in 1..10 : Digits[i] = c

DigitValue(c) == (CHOOSE i \in 1..10 : Digits[i] = c) - 1

\* the number of digits a string starts with
RECURSIVE LeadingDigits(_)
LeadingDigits(s) ==
  IF Len(s) > 0 /\ IsDigit(CharAt(s, 1))
  THEN 1 + LeadingDigits(SubSeq(s, 2, Len(s)))
  ELSE 0

\* the value of a string of digits
RECURSIVE DigitsValue(_)
DigitsValue(s) ==
  IF Len(s) = 0 THEN 0
  ELSE 10 * DigitsValue(SubSeq(s, 1, Len(s) - 1)) + DigitValue(CharAt(s, Len(s)))

StartsWith(s, part) == Len(part) <= Len(s) /\ SubSeq(s, 1, Len(part)) = part

RECURSIVE TrimStart(_)
TrimStart(s) ==
  IF Len(s) > 0 /\ CharAt(s, 1) \in WhiteSpace
  THEN TrimStart(SubSeq(s, 2, Len(s)))
  ELSE s

\* The decimal literal a string starts with: its length and its value,
\* length 0 if it starts with none. Exponents are not in the model.
DecimalPrefix(s) ==
  LET signed == Len(s) > 0 /\ CharAt(s, 1) \in {"+", "-"}
      sign == IF signed /\ CharAt(s, 1) = "-" THEN -1 ELSE 1
      body == IF signed THEN SubSeq(s, 2, Len(s)) ELSE s
      whole == LeadingDigits(body)
      afterWhole == SubSeq(body, whole + 1, Len(body))
      dotted == Len(afterWhole) > 0 /\ CharAt(afterWhole, 1) = "."
      decimals == IF dotted
                  THEN LeadingDigits(SubSeq(afterWhole, 2, Len(afterWhole)))
                  ELSE 0
      firstTwo == SubSeq(afterWhole, 2, 1 + (IF decimals < 2 THEN decimals ELSE 2))
      fraction == IF decimals = 0 THEN 0
                  ELSE IF decimals = 1 THEN 10 * DigitsValue(firstTwo)
                  ELSE DigitsValue(firstTwo)
      offset == IF signed THEN 1 ELSE 0
  IN IF StartsWith(body, "Infinity")
     THEN [len |-> offset + 8, value |-> Inf(sign)]
     ELSE IF whole = 0 /\ decimals = 0
     THEN [len |-> 0, value |-> NaN]
     ELSE [len |-> offset + whole + (IF dotted THEN 1 + decimals ELSE 0),
           value |-> Fin(sign * (100 * DigitsValue(SubSeq(body, 1, whole))
                                 + fraction))]

\* parseFloat(s) of a string: the literal after the leading white space
ParseFloatString(s) == DecimalPrefix(TrimStart(s)).value

\* Number(s) of a string: the whole trimmed string must be a literal
NumberOfString(s) ==
  LET t == Trim(s)
  IN IF t = "" THEN Fin(0)
     ELSE IF DecimalPrefix(t).len = Len(t) THEN DecimalPrefix(t).value
     ELSE NaN

\* parseFloat(v): of String(v)
ParseFloat(v) ==
  IF IsStr(v) THEN ParseFloatString(v.str)
  ELSE IF IsNumber(v) THEN v
  ELSE NaN

\* Number(v), as the comparison v > 0 and isNaN(v) take it
ToNumber(v) ==
  IF IsStr(v) THEN NumberOfString(v.str)
  ELSE IF IsNumber(v) THEN v
  ELSE IF v = Null THEN Fin(0)
  ELSE IF IsBool(v) THEN (IF v.bool THEN Fin(100) ELSE Fin(0))
  ELSE NaN

\* a + b of two numbers
Plus(a, b) ==
  IF IsNaN(a) \/ IsNaN(b) THEN NaN
  ELSE IF IsInf(a) /\ IsInf(b) THEN (IF a.inf = b.inf THEN a ELSE NaN)
  ELSE IF IsInf(a) THEN a
  ELSE IF IsInf(b) THEN b
  ELSE Fin(a.fin + b.fin)

\* v > 0
GreaterThanZero(v) ==
  LET n == ToNumber(v)
  IN (IsFin(n) /\ n.fin > 0) \/ (IsInf(n) /\ n.inf = 1)

\* parseFloat(((a / b) * 100).toFixed(2)) for b > 0
PercentFixed2(a, b) ==
  LET d == ToNumber(b)
  IN IF IsNaN(a) THEN NaN
     ELSE IF IsInf(a) THEN (IF IsInf(d) THEN NaN ELSE a)
     ELSE IF IsInf(d) THEN Fin(0)
     ELSE IF a.fin >= 0
     THEN Fin((2 * 10000 * a.fin + d.fin) \div (2 * d.fin))
     ELSE Fin(-((2 * 10000 * (-a.fin) + d.fin) \div (2 * d.fin)))

\* ----------------------------------------------------- parseNumericValue ---

\* value.replace(/\s+/g, '')
RECURSIVE RemoveWhiteSpace(_)
RemoveWhiteSpace(s) ==
  IF Len(s) = 0 THEN ""
  ELSE (IF CharAt(s, 1) \in WhiteSpace THEN "" ELSE CharAt(s, 1))
         \o RemoveWhiteSpace(SubSeq(s, 2, Len(s)))

\* value.replace(/\.(?=\d{3})/g, ''): the points that three digits follow
RECURSIVE RemoveThousands(_)
RemoveThousands(s) ==
  IF Len(s) = 0 THEN ""
  ELSE (IF CharAt(s, 1) = "." /\ LeadingDigits(SubSeq(s, 2, Len(s))) >= 3
        THEN "" ELSE CharAt(s, 1))
         \o RemoveThousands(SubSeq(s, 2, Len(s)))

\* value.replace(/,/g, '.')
RECURSIVE CommasToPoints(_)
CommasToPoints(s) ==
  IF Len(s) = 0 THEN ""
  ELSE (IF CharAt(s, 1) = "," THEN "." ELSE CharAt(s, 1))
         \o CommasToPoints(SubSeq(s, 2, Len(s)))

\* dataProcessing.js:13-38 parseNumericValue(value)
ParseNumericValue(value) ==
  IF value = Null \/ value = Undefined \/ value = Str("") THEN Fin(0)
  ELSE LET cleanValue == CommasToPoints(RemoveThousands(RemoveWhiteSpace(value.str)))
           num == ParseFloatString(cleanValue)
       IN IF IsStr(value) /\ ~IsNaN(num) THEN num
          ELSE IF IsNumber(value) /\ ~IsNaN(value) THEN value
          ELSE Fin(0)

\* ------------------------------------------------ ColumnMappingEditor ---

\* constants.js:89-164: the display names of the fields
OVERVIEW_FIELDS ==
  [date |-> "Datum",
   video_views |-> "Videovisningar",
   reach |-> "Målgrupp som nåtts",
   profile_views |-> "Profilvisningar",
   likes |-> "Gilla-markeringar",
   shares |-> "Delningar",
   comments |-> "Kommentarer",
   product_clicks |-> "Klick på produktlänkar",
   product_purchase |-> "Produktlänk genomför betalning",
   product_gmv |-> "GMV för produktlänkar",
   website_clicks |-> "Webbplatsklickar",
   phone_clicks |-> "Telefonnummerklickar",
   collected_leads |-> "Insamlade leads",
   app_download_clicks |-> "Klick på nedladdningslänk för app",
   follower_net_growth |-> "Nettotillväxt",
   new_followers |-> "Nya följare",
   lost_followers |-> "Tappade följare"]

OVERVIEW_FIELDS_ENGLISH ==
  [date |-> "Date",
   video_views |-> "Video views",
   reach |-> "Reached audience",
   profile_views |-> "Profile views",
   likes |-> "Likes",
   shares |-> "Shares",
   comments |-> "Comments",
   product_clicks |-> "Product link clicks",
   product_purchase |-> "Product link complete payment",
   product_gmv |-> "Product link GMV",
   website_clicks |-> "Website clicks",
   phone_clicks |-> "Phone number clicks",
   collected_leads |-> "Leads submission",
   app_download_clicks |-> "App download link clicks",
   follower_net_growth |-> "Net growth",
   new_followers |-> "New followers",
   lost_followers |-> "Lost followers"]

VIDEO_FIELDS ==
  [title |-> "Videotitel",
   link |-> "Videolänk",
   publish_time |-> "Publiceringstid",
   views |-> "Videovisningar",
   likes |-> "Gilla-markeringar",
   comments |-> "Kommentarer",
   shares |-> "Delningar",
   favorites |-> "Lägg till i Favoriter"]

VIDEO_FIELDS_ENGLISH ==
  [title |-> "Video title",
   link |-> "Video link",
   publish_time |-> "Post time",
   views |-> "Video views",
   likes |-> "Likes",
   comments |-> "Comments",
   shares |-> "Shares",
   favorites |-> "Add to favorites"]

\* the keys of the tables in the order they are written, the order of
\* Object.entries
OverviewFieldOrder ==
  << "date", "video_views", "reach", "profile_views", "likes", "shares",
     "comments", "product_clicks", "product_purchase", "product_gmv",
     "website_clicks", "phone_clicks", "collected_leads",
     "app_download_clicks", "follower_net_growth", "new_followers",
     "lost_followers" >>

VideoFieldOrder ==
  << "title", "link", "publish_time", "views", "likes", "comments", "shares",
     "favorites" >>

\* The editor is mounted on the overview table. The model keeps three of
\* its fields.
EditorFields == {"date", "likes", "comments"}

\* table[field] of JavaScript: undefined (Absent) for a field the table lacks
Lookup(table, field) ==
  IF field \in DOMAIN table THEN table[field] ELSE Absent

\* /[åäö]/i.test(name)
HasSwedishLetter(name) ==
  \E i \in 1..Len(name) : CharAt(name, i) \in {"å", "ä", "ö", "Å", "Ä", "Ö"}

\* what a user can type or paste into an input of the editor
TypedValues == {"", " ", "Datum", "Dag", "Gilla-markeringar", "Gillningar"}

\* !newValue.trim()
IsBlank(newValue) == newValue \in {"", " "}

\* A mapping object is the sequence of its entries in insertion order, the
\* order Object.entries walks
Entry(key, value) == [k |-> key, v |-> value]

HasKey(mappings, key) == \E i \in 1..Len(mappings) : mappings[i].k = key

\* delete mappings[key]
DeleteKey(mappings, key) == SelectSeq(mappings, LAMBDA e : e.k # key)

\* mappings[key] = value: an existing key keeps its place, a new one goes last
SetKey(mappings, key, value) ==
  IF HasKey(mappings, key)
  THEN [i \in 1..Len(mappings) |->
          IF mappings[i].k = key THEN Entry(key, value) ELSE mappings[i]]
  ELSE Append(mappings, Entry(key, value))

\* the key of the first entry that passes the test, null (Absent) if none does
FirstKey(mappings, Test(_)) ==
  IF \E i \in 1..Len(mappings) : Test(mappings[i])
  THEN LET first == CHOOSE i \in 1..Len(mappings) :
                      /\ Test(mappings[i])
                      /\ \A j \in 1..(i - 1) : ~Test(mappings[j])
       IN mappings[first].k
  ELSE Absent

\* columnMappingService.js:46-63 getDefaultMappings(OVERVIEW, true): the
\* English names first, then the Swedish ones
DefaultTable ==
  << Entry("Date", "date"), Entry("Likes", "likes"),
     Entry("Comments", "comments"), Entry("Datum", "date"),
     Entry("Gilla-markeringar", "likes"), Entry("Kommentarer", "comments") >>

\* columnMappingService.js:88-141 getAlternativeNames
CommonVariants ==
  [likes    |-> {"Gilla-markeringar", "Gilla", "Gillningar", "Likes"},
   comments |-> {"Kommentarer", "Comments", "Comment Count"},
   date     |-> {"Datum", "Date", "Dag"}]

GetAlternativeNames(internalName, currentMappings) ==
  ({currentMappings[i].k : i \in {j \in 1..Len(currentMappings) :
                                    currentMappings[j].v = internalName}}
   \cup {Lookup(OVERVIEW_FIELDS, internalName),
         Lookup(VIDEO_FIELDS, internalName),
         Lookup(OVERVIEW_FIELDS_ENGLISH, internalName),
         Lookup(VIDEO_FIELDS_ENGLISH, internalName)}
   \cup CommonVariants[internalName]) \ {Absent}

\* ColumnMappingEditor.jsx:407-408 and 425-426: the buttons under "Svenska"
\* and under "Engelska"
IsSwedishName(name, internalName) ==
  \/ HasSwedishLetter(name)
  \/ name = Lookup(OVERVIEW_FIELDS, internalName)
  \/ name = Lookup(VIDEO_FIELDS, internalName)

Examples(internalName, language) ==
  {name \in GetAlternativeNames(internalName, editor.mappings) :
     IF language = "sv" THEN IsSwedishName(name, internalName)
                        ELSE ~IsSwedishName(name, internalName)}

\* ColumnMappingEditor.jsx:204-222 getSwedishMapping
GetSwedishMapping(internalName) ==
  LET defaultMapping == OVERVIEW_FIELDS[internalName]
      found == FirstKey(editor.mappings,
                 LAMBDA e : /\ e.v = internalName
                            /\ (e.k = defaultMapping \/ HasSwedishLetter(e.k)))
  IN IF found # Absent THEN found ELSE defaultMapping

\* ColumnMappingEditor.jsx:225-243 getEnglishMapping
GetEnglishMapping(internalName) ==
  LET defaultMapping == OVERVIEW_FIELDS_ENGLISH[internalName]
      found == FirstKey(editor.mappings,
                 LAMBDA e : /\ e.v = internalName
                            /\ \/ e.k = defaultMapping
                               \/ /\ ~HasSwedishLetter(e.k)
                                  /\ e.k # Lookup(OVERVIEW_FIELDS, internalName)
                                  /\ e.k # Lookup(VIDEO_FIELDS, internalName))
  IN IF found # Absent THEN found ELSE defaultMapping

\* ColumnMappingEditor.jsx:176-190: the name handleExampleClick takes for the
\* present one. && binds tighter than ||, so the second test stands alone.
ExistingName(internalName, language) ==
  IF language = "sv"
  THEN FirstKey(editor.mappings,
         LAMBDA e : \/ /\ e.v = internalName
                       /\ Lookup(OVERVIEW_FIELDS, internalName) = e.k
                    \/ Lookup(VIDEO_FIELDS, internalName) = e.k)
  ELSE FirstKey(editor.mappings,
         LAMBDA e : \/ /\ e.v = internalName
                       /\ Lookup(OVERVIEW_FIELDS_ENGLISH, internalName) = e.k
                    \/ Lookup(VIDEO_FIELDS_ENGLISH, internalName) = e.k)

\* ColumnMappingEditor.jsx:129-131: the entry that stands in the way
ExistingMapping(mappings, originalName, internalName, newValue) ==
  \E i \in 1..Len(mappings) :
    /\ mappings[i].k # originalName
    /\ mappings[i].k = newValue
    /\ mappings[i].v # internalName

\* ColumnMappingEditor.jsx:138-154: the updater given to setMappings
NewMappings(prev, originalName, internalName, newValue) ==
  LET kept == IF originalName # Absent /\ originalName # "" /\ originalName # newValue
              THEN DeleteKey(prev, originalName)
              ELSE prev
  IN IF newValue # "" /\ ~IsBlank(newValue)
     THEN SetKey(kept, newValue, internalName)
     ELSE kept

\* the editor after loadMappings (40-57) found no stored table
EditorLoaded ==
  [mappings |-> DefaultTable, error |-> Absent, edits |-> 0, last |-> NoEdit]

\* ColumnMappingEditor.jsx:118-160 handleValueChange
HandleValueChange(originalName, internalName, newValue) ==
  LET asked == [orig |-> originalName, field |-> internalName,
                value |-> newValue, before |-> editor.mappings]
  IN /\ editor.edits < MaxEdits
     /\ editor' =
          IF IsBlank(newValue)
          THEN [editor EXCEPT !.error = "empty", !.last = asked,
                              !.edits = @ + 1]
          ELSE IF ExistingMapping(editor.mappings, originalName, internalName,
                                  newValue)
          THEN [editor EXCEPT !.error = "used", !.last = asked,
                              !.edits = @ + 1]
          ELSE [editor EXCEPT
                  !.mappings = NewMappings(editor.mappings, originalName,
                                           internalName, newValue),
                  !.error = Absent, !.last = asked, !.edits = @ + 1]
     /\ UNCHANGED <<now, lsAccounts, lsData, lsMappings, cachedMappings,
                    idbAccounts, idbData, nextKey, procs, hist, par, opsLeft,
                    faultsLeft, calc>>

\* ColumnMappingEditor.jsx:368-371 and 377-380: onChange of an input. It
\* fires when the text differs from the one shown.
TypeValue(internalName, language, newValue) ==
  LET shown == IF language = "sv" THEN GetSwedishMapping(internalName)
                                  ELSE GetEnglishMapping(internalName)
  IN /\ newValue # shown
     /\ HandleValueChange(shown, internalName, newValue)

\* ColumnMappingEditor.jsx:171-194 handleExampleClick, from a button of 406-415
\* or 424-433
HandleExampleClick(exampleName, internalName, language) ==
  /\ exampleName \in Examples(internalName, language)
  /\ HandleValueChange(ExistingName(internalName, language), internalName,
                       exampleName)

\* ---------------------------------------------------- webDataProcessor ---

\* constants.js:80-86
REQUIRED_OVERVIEW_FIELDS ==
  <<"date", "video_views", "reach", "profile_views", "likes", "comments",
    "shares">>

REQUIRED_VIDEO_FIELDS ==
  <<"title", "publish_time", "views", "likes", "comments", "shares">>

\* text.replace(/\s+/g, ' ')
RECURSIVE CollapseWhiteSpace(_)
CollapseWhiteSpace(s) ==
  IF Len(s) = 0 THEN ""
  ELSE IF CharAt(s, 1) \in WhiteSpace
  THEN " " \o CollapseWhiteSpace(TrimStart(s))
  ELSE CharAt(s, 1) \o CollapseWhiteSpace(SubSeq(s, 2, Len(s)))

\* text.replace(/[\u200B-\u200D\uFEFF]/g, '')
RECURSIVE RemoveZeroWidth(_)
RemoveZeroWidth(s) ==
  IF Len(s) = 0 THEN ""
  ELSE (IF CharAt(s, 1) = ZeroWidth THEN "" ELSE CharAt(s, 1))
         \o RemoveZeroWidth(SubSeq(s, 2, Len(s)))

\* part_002:204-211 normalizeText(text)
NormalizeText(text) ==
  RemoveZeroWidth(CollapseWhiteSpace(ToLowerCase(Trim(text))))

\* A row is the sequence of its entries in the order of its columns. row[key]
\* is undefined for a key it lacks.
Get(row, key) ==
  IF HasKey(row, key)
  THEN row[CHOOSE i \in 1..Len(row) : row[i].k = key].v
  ELSE Undefined

\* part_002:225-232: the internal name of the first mapping whose key
\* normalizes to the column's name, null (Absent) if there is none
InternalName(externalName, columnMappings) ==
  LET normalizedExternal == NormalizeText(externalName)
      hits == {i \in 1..Len(columnMappings) :
                 NormalizeText(columnMappings[i].k) = normalizedExternal}
  IN IF hits = {} THEN Absent
     ELSE columnMappings[CHOOSE i \in hits : \A j \in hits : i <= j].v

\* part_002:240-243: strings that are numbers become numbers
ProcessedValue(value) ==
  IF IsStr(value) /\ ~IsNaN(NumberOfString(value.str)) /\ Trim(value.str) # ""
  THEN ParseFloatString(value.str)
  ELSE value

\* part_002:219-249 mapRow(row, columnMappings)
RECURSIVE MapEntries(_, _, _, _)
MapEntries(row, i, columnMappings, result) ==
  IF i > Len(row) THEN result
  ELSE LET found == InternalName(row[i].k, columnMappings)
           internalName == IF found = Absent \/ found = ""
                           THEN row[i].k ELSE found
       IN MapEntries(row, i + 1, columnMappings,
                     SetKey(result, internalName, ProcessedValue(row[i].v)))

MapRow(row, columnMappings) == MapEntries(row, 1, columnMappings, <<>>)

\* parseFloat(row.field || 0)
Additive(row, field) ==
  IF Falsy(Get(row, field)) THEN Fin(0) ELSE ParseFloat(Get(row, field))

\* a rate cut after two decimals, not rounded
EngagementRate_cut(interactions, divisor) ==
  IF ~Falsy(divisor) /\ GreaterThanZero(divisor)
  THEN Fin((10000 * interactions.fin) \div ToNumber(divisor).fin)
  ELSE Fin(0)

\* part_002:267-271 and 292-296: interactions / divisor * 100, two decimals
EngagementRate(interactions, divisor) ==
  IF ~Falsy(divisor) /\ GreaterThanZero(divisor)
  THEN PercentFixed2(interactions, divisor)
  ELSE Fin(0)

\* part_002:256-274 calculateOverviewFields(row)
CalculateOverviewFields(row) ==
  LET interactions == Plus(Plus(Additive(row, "likes"),
                                Additive(row, "comments")),
                           Additive(row, "shares"))
  IN SetKey(SetKey(row, "interactions", interactions),
            "engagement_rate", EngagementRate(interactions, Get(row, "reach")))

\* part_002:281-299 calculateVideoFields(row)
CalculateVideoFields(row) ==
  LET interactions == Plus(Plus(Plus(Additive(row, "likes"),
                                     Additive(row, "comments")),
                                Additive(row, "shares")),
                           Additive(row, "favorites"))
  IN SetKey(SetKey(row, "interactions", interactions),
            "engagement_rate", EngagementRate(interactions, Get(row, "views")))

\* An argument of validateRequiredColumns is an array, an object or null
ArrayOf(items) == [array |-> items]
ObjectOf(entries) == [object |-> entries]

\* part_002:106-163 validateRequiredColumns(headers, columnMappings, csvType)
ValidateRequiredColumns(headersArg, mappingsArg, csvType) ==
  IF DOMAIN headersArg # {"array"} \/ mappingsArg = Null
  THEN [isValid |-> FALSE, missingColumns |-> <<>>, error |-> "invalid"]
  ELSE
    LET headers == headersArg.array
        columnMappings == mappingsArg.object
        normalizedHeaders == NormalizedHeaders(headers)
        requiredFields == IF csvType = OVERVIEW THEN REQUIRED_OVERVIEW_FIELDS
                                                ELSE REQUIRED_VIDEO_FIELDS
        displayFields == IF csvType = OVERVIEW THEN OVERVIEW_FIELDS
                                               ELSE VIDEO_FIELDS
        externalNames(field) ==
          {ToLowerCase(columnMappings[i].k) :
             i \in {j \in 1..Len(columnMappings) : columnMappings[j].v = field}}
        found(field) ==
          \E name \in externalNames(field) : ToLowerCase(name) \in normalizedHeaders
        missing == SelectSeq(requiredFields, LAMBDA field : ~found(field))
        missingColumns == [i \in 1..Len(missing) |-> displayFields[missing[i]]]
    IN [isValid |-> Len(missingColumns) = 0,
        missingColumns |-> missingColumns,
        error |-> IF Len(missingColumns) > 0 THEN "missing" ELSE Absent]

\* part_002:453-481 getDefaultColumnMappings(csvType): the Swedish names, then
\* the English ones
TableOf(order, names) ==
  [i \in 1..Len(order) |-> Entry(names[order[i]], order[i])]

RECURSIVE Assign(_, _)
Assign(target, source) ==
  IF source = <<>> THEN target
  ELSE Assign(SetKey(target, Head(source).k, Head(source).v), Tail(source))

\* a default table with the Swedish names only
GetDefaultColumnMappings_swedish(csvType) ==
  IF csvType = OVERVIEW THEN TableOf(OverviewFieldOrder, OVERVIEW_FIELDS)
                        ELSE TableOf(VideoFieldOrder, VIDEO_FIELDS)

GetDefaultColumnMappings(csvType) ==
  IF csvType = OVERVIEW
  THEN Assign(TableOf(OverviewFieldOrder, OVERVIEW_FIELDS),
              TableOf(OverviewFieldOrder, OVERVIEW_FIELDS_ENGLISH))
  ELSE Assign(TableOf(VideoFieldOrder, VIDEO_FIELDS),
              TableOf(VideoFieldOrder, VIDEO_FIELDS_ENGLISH))

\* part_002:367 and 380
MaxRows == 5000
BatchSize == 500

\* part_002:386-395: one row, mapped and then given its calculated fields
MapThenCalculate(row, columnMappings, csvType) ==
  IF csvType = OVERVIEW
  THEN CalculateOverviewFields(MapRow(row, columnMappings))
  ELSE CalculateVideoFields(MapRow(row, columnMappings))

\* a loop that leaves out the row between two batches
NextBatchStart_skip(i) == i + BatchSize + 1

\* part_002:383: i += batchSize
NextBatchStart(i) == i + BatchSize

\* part_002:383-398: the batches of 500, one after the other
RECURSIVE ProcessBatches(_, _, _, _, _)
ProcessBatches(dataToProcess, i, columnMappings, csvType, processedData) ==
  IF i > Len(dataToProcess) THEN processedData
  ELSE LET last == IF i + BatchSize - 1 < Len(dataToProcess)
                   THEN i + BatchSize - 1 ELSE Len(dataToProcess)
           batch == SubSeq(dataToProcess, i, last)
           processedBatch ==
             [j \in 1..Len(batch) |->
                MapThenCalculate(batch[j], columnMappings, csvType)]
       IN ProcessBatches(dataToProcess, NextBatchStart(i), columnMappings,
                         csvType, processedData \o processedBatch)

\* part_002:401-406: publication_count on the rows of a video file
WithPublicationCount(processedData, csvType) ==
  IF csvType = VIDEO
  THEN [i \in 1..Len(processedData) |->
          SetKey(processedData[i], "publication_count", Fin(100))]
  ELSE processedData

\* part_002:408-428: the value the call resolves with, given the rows it
\* processed
ResolvedWith(file, csvType, validation, processedData) ==
  [rejected |-> FALSE, error |-> Absent, wrongPlatform |-> Absent,
   data |-> processedData,
   csvType |-> csvType,
   meta |-> [rowCount |-> Len(processedData),
             totalRows |-> Len(file.data),
             isLimited |-> Len(file.data) > MaxRows,
             fields |-> file.fields,
             missingColumns |-> validation.missingColumns]]

\* part_002:361-428: what the call resolves with once the type and the
\* validation are known
ResolvedValue(file, columnMappings, csvType, validation) ==
  LET isLimited == Len(file.data) > MaxRows
      dataToProcess == IF isLimited THEN SubSeq(file.data, 1, MaxRows)
                       ELSE file.data
  IN ResolvedWith(file, csvType, validation,
                  WithPublicationCount(
                    ProcessBatches(dataToProcess, 1, columnMappings, csvType, <<>>),
                    csvType))

\* a pipeline that stops at a missing required column
ProcessTikTokData_strict(file, columnMappings, forcedType) ==
  LET csvType == IF forcedType # Absent THEN forcedType
                 ELSE DetectCSVType(file.fields)
      wrongPlatform == CheckWrongPlatform(csvType)
      validation == ValidateRequiredColumns(ArrayOf(file.fields),
                                            ObjectOf(columnMappings), csvType)
  IN IF Len(file.data) = 0
     THEN [rejected |-> TRUE, error |-> "no data", wrongPlatform |-> Absent]
     ELSE IF wrongPlatform # Absent
     THEN [rejected |-> TRUE, error |-> "wrong platform",
           wrongPlatform |-> wrongPlatform]
     ELSE IF ~validation.isValid
     THEN [rejected |-> TRUE, error |-> "missing", wrongPlatform |-> Absent]
     ELSE ResolvedValue(file, columnMappings, csvType, validation)

\* part_002:321-446 processTikTokData(csvContent, columnMappings, forcedType),
\* on what Papa.parse made of the content: file.fields are the headers,
\* file.data the rows. The date range and the time of processing, which the
\* result also carries, are not kept.
ProcessTikTokData(file, columnMappings, forcedType) ==
  LET csvType == IF forcedType # Absent THEN forcedType
                 ELSE DetectCSVType(file.fields)
      wrongPlatform == CheckWrongPlatform(csvType)
      validation == ValidateRequiredColumns(ArrayOf(file.fields),
                                            ObjectOf(columnMappings), csvType)
  IN IF Len(file.data) = 0
     THEN [rejected |-> TRUE, error |-> "no data", wrongPlatform |-> Absent]
     ELSE IF wrongPlatform # Absent
     THEN [rejected |-> TRUE, error |-> "wrong platform",
           wrongPlatform |-> wrongPlatform]
     ELSE ResolvedValue(file, columnMappings, csvType, validation)

\* -------------------------------------------------------- FileUploader ---

\* the headers of the files chosen in the uploader, in column order
UploadHeaders == <<"Page name", "Post reach", "Title", "Datum", "Likes">>

\* what Papa.parse makes of a file with these columns and n rows; every cell
\* holds the number of its row
ParsedFile(columns, n) ==
  [fields |-> {columns[i] : i \in 1..Len(columns)},
   data |-> [r \in 1..n |->
               [i \in 1..Len(columns) |-> Entry(columns[i], Fin(100 * r))]]]

UploadFiles ==
  {ParsedFile(SelectSeq(UploadHeaders, LAMBDA h : h \in chosen), n) :
     chosen \in (SUBSET {UploadHeaders[i] : i \in 1..Len(UploadHeaders)}) \ {{}},
     n \in 0..MaxFileRows}

NoSave == [called |-> FALSE]

\* part_006:23-39 and part_007:11-16: the uploader with a file just chosen
FileChosen(file, forcedFileType) ==
  [fn |-> "upload", file |-> file, forcedFileType |-> forcedFileType,
   selectedFileType |-> forcedFileType, fileType |-> Absent,
   isDetecting |-> TRUE, uploaded |-> FALSE,
   outcome |-> [rejected |-> FALSE, error |-> Absent], saved |-> NoSave]

UnchangedStores ==
  UNCHANGED <<now, lsAccounts, lsData, lsMappings, cachedMappings, idbAccounts,
              idbData, nextKey, procs, hist, par, opsLeft, faultsLeft, editor>>

\* part_007:39-60: the file is read and its headers give the detected type
DetectFile ==
  /\ calc.fn = "upload"
  /\ calc.isDetecting
  /\ calc' = [calc EXCEPT !.fileType = DetectCSVType(calc.file.fields),
                          !.isDetecting = FALSE]
  /\ UnchangedStores

\* part_006 (FileUploader): the select of the file type, which offers the two
\* TikTok types
SetSelectedFileType(type) ==
  /\ calc.fn = "upload"
  /\ ~calc.uploaded
  /\ calc.selectedFileType # type
  /\ calc' = [calc EXCEPT !.selectedFileType = type]
  /\ UnchangedStores

\* part_006:238: selectedFileType || forcedFileType || fileType
TypeToUse ==
  IF calc.selectedFileType # Absent THEN calc.selectedFileType
  ELSE IF calc.forcedFileType # Absent THEN calc.forcedFileType
  ELSE calc.fileType

\* part_006:224-280 handleUpload, with the button enabled and no mapping table
\* stored; saved is the call of saveAccountData it makes
\* part_006:255-276: the uploader once processTikTokData has settled: its
\* rejection is shown, its rows go to saveAccountData
AfterUpload(typeToUse, processedData) ==
  IF processedData.rejected
  THEN [calc EXCEPT !.uploaded = TRUE,
                    !.outcome = [rejected |-> TRUE,
                                 error |-> processedData.error]]
  ELSE [calc EXCEPT !.uploaded = TRUE,
                    !.saved = [called |-> TRUE, csvType |-> typeToUse,
                               data |-> processedData.data]]

HandleUpload ==
  /\ calc.fn = "upload"
  /\ ~calc.isDetecting
  /\ ~calc.uploaded
  /\ TypeToUse # Absent
  /\ lsMappings[IF TypeToUse = OVERVIEW THEN OVERVIEW ELSE VIDEO] = Absent
  /\ calc' = AfterUpload(TypeToUse,
                         ProcessTikTokData(calc.file,
                                           GetDefaultColumnMappings(TypeToUse),
                                           TypeToUse))
  /\ UnchangedStores

\* ------------------------------------------- rows through the processor ---

\* What a cell of a parsed file can hold: nothing (null), text, a number.
\* Undefined stands for a column the file lacks.
CellValues == {Undefined, Null, Str(""), Str("n/a"), Str("12"), Fin(500), Fin(0)}

\* the columns of the rows of the model, by their default English names
DerivedColumns(csvType) ==
  IF csvType = OVERVIEW THEN <<"Likes", "Comments", "Reached audience">>
                        ELSE <<"Likes", "Add to favorites", "Video views">>

\* the row with the given cells, without the columns that are missing
RawRow(columns, cells) ==
  LET present == SelectSeq([i \in 1..Len(columns) |-> i],
                           LAMBDA i : cells[i] # Undefined)
  IN [j \in 1..Len(present) |-> Entry(columns[present[j]], cells[present[j]])]

\* a row about to go through mapRow and the calculation of its type
RowGiven(csvType, row) ==
  [fn |-> "derive", csvType |-> csvType, row |-> row, done |-> FALSE,
   result |-> <<>>]

\* part_002:386-395: the row is mapped with the default table, then given
\* interactions and engagement_rate
DeriveRow ==
  /\ calc.fn = "derive"
  /\ ~calc.done
  /\ calc' = [calc EXCEPT
                !.done = TRUE,
                !.result = MapThenCalculate(
                             calc.row, GetDefaultColumnMappings(calc.csvType),
                             calc.csvType)]
  /\ UnchangedStores

\* --------------------------------------------- values to parseNumericValue ---

\* the texts given to parseNumericValue: a number in one of the notations of
\* a CSV export, or no number, with or without a sign, spaces and a suffix
NumericTexts ==
  {pre \o body \o post :
     pre \in {"", " ", "-"},
     body \in {"", "12", "1.234", "1,5", "1.234.567,89", "Infinity", "NaN", "abc"},
     post \in {"", " ", "x"}}

NumericInputs ==
  {Null, Undefined, NaN, Inf(1), Inf(-1), Bool(TRUE), Bool(FALSE)}
    \cup {Str(s) : s \in NumericTexts}
    \cup {Fin(50 * n) : n \in (-MaxNumber)..MaxNumber}

ValueGiven(value) ==
  [fn |-> "parseNumericValue", value |-> value, done |-> FALSE,
   result |-> Undefined]

\* dataProcessing.js:13-38: a call of parseNumericValue
CallParseNumericValue ==
  /\ calc.fn = "parseNumericValue"
  /\ ~calc.done
  /\ calc' = [calc EXCEPT !.done = TRUE,
                          !.result = ParseNumericValue(calc.value)]
  /\ UnchangedStores

\* ---------------------------------------------- calls of processTikTokData ---

\* the columns of the small files given to processTikTokData
ProcessHeaders ==
  <<"Video title", "Post time", "Video views", "Likes", "Datum">>

\* small files with any of the columns, each with both default tables and
\* with or without a forced type
SmallInputs ==
  {[file |-> ParsedFile(SelectSeq(ProcessHeaders, LAMBDA h : h \in chosen), n),
    columnMappings |-> GetDefaultColumnMappings(tableType),
    forcedType |-> forcedType] :
     chosen \in (SUBSET {ProcessHeaders[i] : i \in 1..Len(ProcessHeaders)}) \ {{}},
     n \in 0..MaxFileRows,
     tableType \in CSV_TYPES,
     forcedType \in {Absent, OVERVIEW, VIDEO}}

\* the numbers of rows around the size of a batch and around the ceiling,
\* and two batches more than the ceiling
LargeRowCounts ==
  {BatchSize - 1, BatchSize, BatchSize + 1, MaxRows - 1, MaxRows,
   MaxRows + 2 * BatchSize}
    \cup {MaxRows + k : k \in 1..MaxOver}

\* files of one column with that many rows, the type forced
LargeInputs ==
  {[file |-> ParsedFile(<<"Likes">>, n),
    columnMappings |-> <<Entry("Likes", "likes")>>,
    forcedType |-> forcedType] :
     n \in LargeRowCounts, forcedType \in CSV_TYPES}

\* the supported types with the names of one language each
Locales ==
  {[csvType |-> OVERVIEW, names |-> OVERVIEW_FIELDS],
   [csvType |-> OVERVIEW, names |-> OVERVIEW_FIELDS_ENGLISH],
   [csvType |-> VIDEO, names |-> VIDEO_FIELDS],
   [csvType |-> VIDEO, names |-> VIDEO_FIELDS_ENGLISH]}

RequiredFields(csvType) ==
  IF csvType = OVERVIEW THEN REQUIRED_OVERVIEW_FIELDS ELSE REQUIRED_VIDEO_FIELDS

\* the default names of the required fields of a type in one language
RequiredNames(locale) ==
  [i \in 1..Len(RequiredFields(locale.csvType)) |->
     locale.names[RequiredFields(locale.csvType)[i]]]

\* files with every required column of their type, under its default
\* Swedish or English names
CompleteInputs ==
  {[file |-> ParsedFile(RequiredNames(locale), n),
    columnMappings |-> GetDefaultColumnMappings(locale.csvType),
    forcedType |-> forcedType] :
     locale \in Locales,
     n \in 1..MaxFileRows,
     forcedType \in {Absent, OVERVIEW, VIDEO}}

ProcessInputs == SmallInputs \cup LargeInputs \cup CompleteInputs

ProcessGiven(input) ==
  [fn |-> "process", file |-> input.file,
   columnMappings |-> input.columnMappings, forcedType |-> input.forcedType,
   done |-> FALSE, result |-> [rejected |-> FALSE]]

\* part_002:321-446: a call of processTikTokData, up to its promise settling
CallProcessTikTokData ==
  /\ calc.fn = "process"
  /\ ~calc.done
  /\ calc' = [calc EXCEPT
                !.done = TRUE,
                !.result = ProcessTikTokData(calc.file, calc.columnMappings,
                                             calc.forcedType)]
  /\ UnchangedStores

\* ------------------------------------------------------ rows to mapRow ---

\* the fields of a type that are not required, in the order of its table
OptionalFields(csvType) ==
  SelectSeq(IF csvType = OVERVIEW THEN OverviewFieldOrder ELSE VideoFieldOrder,
            LAMBDA f : \A i \in 1..Len(RequiredFields(csvType)) :
                         RequiredFields(csvType)[i] # f)

\* a raw row of a file in one language: the columns of the required fields
\* and of some of the first optional ones, under their default names, every
\* cell with the same value
LocaleRow(locale, extra, value) ==
  LET fields == RequiredFields(locale.csvType)
                  \o SelectSeq(OptionalFields(locale.csvType),
                               LAMBDA f : f \in extra)
  IN [i \in 1..Len(fields) |-> Entry(locale.names[fields[i]], value)]

LocaleRows(locale) ==
  {LocaleRow(locale, extra, value) :
     extra \in SUBSET {OptionalFields(locale.csvType)[i] :
                         i \in {j \in 1..MaxOptional :
                                  j <= Len(OptionalFields(locale.csvType))}},
     value \in CellValues \ {Undefined}}

RawRowGiven(locale, row) ==
  [fn |-> "mapRow", csvType |-> locale.csvType, names |-> locale.names,
   row |-> row, done |-> FALSE, result |-> <<>>]

\* part_002:219-249: a call of mapRow with the default table of the type
CallMapRow ==
  /\ calc.fn = "mapRow"
  /\ ~calc.done
  /\ calc' = [calc EXCEPT
                !.done = TRUE,
                !.result = MapRow(calc.row,
                                  GetDefaultColumnMappings(calc.csvType))]
  /\ UnchangedStores

\* ------------------------------------- headers to validateRequiredColumns ---

\* a column name as a file can spell it
RECURSIVE DoubleSpaces(_)
DoubleSpaces(s) ==
  IF Len(s) = 0 THEN ""
  ELSE (IF CharAt(s, 1) = " " THEN "  " ELSE CharAt(s, 1))
         \o DoubleSpaces(SubSeq(s, 2, Len(s)))

Spellings == {"same", "padded", "tab", "double", "zero-width", "other"}

Spelled(name, spelling) ==
  CASE spelling = "same" -> name
    [] spelling = "padded" -> " " \o name \o " "
    [] spelling = "tab" -> name \o "\t"
    [] spelling = "double" -> DoubleSpaces(name)
    [] spelling = "zero-width" -> name \o ZeroWidth
    [] OTHER -> name \o " 2"

\* the headers of a file in one language: its required columns, one of them
\* spelled in some way
SpelledHeaders(locale, i, spelling) ==
  {IF j = i THEN Spelled(RequiredNames(locale)[j], spelling)
            ELSE RequiredNames(locale)[j] :
     j \in 1..Len(RequiredNames(locale))}

ValidateInputs ==
  {[headers |-> ArrayOf(SpelledHeaders(locale, i, spelling)),
    columnMappings |-> ObjectOf(table),
    csvType |-> locale.csvType] :
     locale \in Locales, i \in 1..MaxSpelled, spelling \in Spellings,
     table \in {GetDefaultColumnMappings(OVERVIEW),
                GetDefaultColumnMappings(VIDEO)}}
  \cup
  {[headers |-> headers, columnMappings |-> columnMappings, csvType |-> csvType] :
     headers \in {Null, ArrayOf({})},
     columnMappings \in {Null, ObjectOf(<<>>)},
     csvType \in CSV_TYPES}

ValidateGiven(input) ==
  [fn |-> "validateRequiredColumns", headers |-> input.headers,
   columnMappings |-> input.columnMappings, csvType |-> input.csvType,
   done |-> FALSE, result |-> Absent]

\* part_002:106-163: a call of validateRequiredColumns
CallValidateRequiredColumns ==
  /\ calc.fn = "validateRequiredColumns"
  /\ ~calc.done
  /\ calc' = [calc EXCEPT
                !.done = TRUE,
                !.result = ValidateRequiredColumns(calc.headers,
                                                   calc.columnMappings,
                                                   calc.csvType)]
  /\ UnchangedStores

\* ---------------------------------------------------- MainView.handleReset ---

\* part_014:1005 and 1008: the two messages of showSuccessMessage
AllReset == "All data har återställts. Laddar om sidan..."
Completing == "Återställningsprocessen slutförs. Laddar om sidan..."

\* the promise of Promise.race has settled and the code after the await has
\* not run yet: it runs before any other event is handled
Settled == calc.pc = "racing" /\ calc.race # "pending"

FirstToSettle(outcome) == IF calc.race = "pending" THEN outcome ELSE calc.race

\* part_014:958-1003: the keys of the application are removed from
\* localStorage, the timer of 5 seconds is started, deleteDatabase is asked
\* and the race of the two promises is awaited.  Other pages can have the
\* database open.
HandleReset(connections) ==
  /\ calc = NoCalc
  /\ calc' = [fn |-> "handleReset", pc |-> "racing",
              isResetting |-> TRUE, resetError |-> Absent,
              connections |-> connections,
              request |-> "pending", timer |-> "armed", race |-> "pending",
              successMessage |-> Absent]
  /\ lsAccounts' = <<>>
  /\ lsData' = [a \in AccountIds |-> [c \in CSV_TYPES |-> NoSnap]]
  /\ lsMappings' = [c \in CSV_TYPES |-> Absent]
  /\ UNCHANGED <<now, cachedMappings, idbAccounts, idbData, nextKey, procs,
                 hist, par, opsLeft, faultsLeft, editor>>

\* another page closes its connection to the database
CloseConnection ==
  /\ calc.fn = "handleReset"
  /\ ~Settled
  /\ calc.request \in {"pending", "blocked"}
  /\ calc.connections > 0
  /\ calc' = [calc EXCEPT !.connections = @ - 1]
  /\ UnchangedStores

\* part_014:985-989 onblocked: connections stay open; the promise of the
\* deletion is resolved
DeleteBlocked ==
  /\ calc.fn = "handleReset"
  /\ ~Settled
  /\ calc.request = "pending"
  /\ calc.connections > 0
  /\ calc' = [calc EXCEPT !.request = "blocked",
                          !.race = FirstToSettle("resolved")]
  /\ UnchangedStores

\* part_014:991-994 onsuccess: no connection is open and the database is gone
DeleteSucceeds ==
  /\ calc.fn = "handleReset"
  /\ ~Settled
  /\ calc.request \in {"pending", "blocked"}
  /\ calc.connections = 0
  /\ calc' = [calc EXCEPT !.request = "success",
                          !.race = FirstToSettle("resolved")]
  /\ idbAccounts' = {}
  /\ idbData' = [c \in CSV_TYPES |-> {}]
  /\ nextKey' = [c \in CSV_TYPES |-> 1]
  /\ UNCHANGED <<now, lsAccounts, lsData, lsMappings, cachedMappings, procs,
                 hist, par, opsLeft, faultsLeft, editor>>

\* part_014:980-983 onerror: the deletion failed
DeleteFails ==
  /\ calc.fn = "handleReset"
  /\ ~Settled
  /\ calc.request \in {"pending", "blocked"}
  /\ faultsLeft > 0
  /\ faultsLeft' = faultsLeft - 1
  /\ calc' = [calc EXCEPT !.request = "error",
                          !.race = FirstToSettle("rejected")]
  /\ UNCHANGED <<now, lsAccounts, lsData, lsMappings, cachedMappings,
                 idbAccounts, idbData, nextKey, procs, hist, par, opsLeft,
                 editor>>

\* a timeout that is a hard error: the flow stops and shows the error
TimeoutFires_hardError ==
  /\ calc.fn = "handleReset"
  /\ ~Settled
  /\ calc.pc \in {"racing", "told"}
  /\ calc.timer = "armed"
  /\ calc' = [calc EXCEPT !.timer = "fired", !.pc = "failed",
                          !.isResetting = FALSE, !.resetError = "timeout"]
  /\ UnchangedStores

\* part_014:970-974: the 5 seconds have passed while the page is still there
TimeoutFires ==
  /\ calc.fn = "handleReset"
  /\ ~Settled
  /\ calc.pc \in {"racing", "told"}
  /\ calc.timer = "armed"
  /\ calc' = [calc EXCEPT !.timer = "fired",
                          !.race = FirstToSettle("rejected")]
  /\ UnchangedStores

\* part_014:1003-1015: the code after the await tells the user and starts the
\* timer of the reload
TellUser ==
  /\ calc.fn = "handleReset"
  /\ Settled
  /\ calc' = [calc EXCEPT
                !.pc = "told",
                !.successMessage = IF calc.race = "resolved" THEN AllReset
                                                             ELSE Completing]
  /\ UnchangedStores

\* part_014:1013-1015: window.location.reload() after 1.5 seconds; the page
\* and the memory of its modules are gone
Reload ==
  /\ calc.fn = "handleReset"
  /\ calc.pc = "told"
  /\ calc' = [calc EXCEPT !.pc = "reloaded", !.isResetting = FALSE,
                          !.timer = "gone"]
  /\ cachedMappings' = [c \in CSV_TYPES |-> Absent]
  /\ UNCHANGED <<now, lsAccounts, lsData, lsMappings, idbAccounts, idbData,
                 nextKey, procs, hist, par, opsLeft, faultsLeft, editor>>

\* ------------------------------------------------ headers to detectCSVType ---

\* the headers the files of SpecDetect are made of
DetectHeaders ==
  <<"Datum", "Videovisningar", "Videotitel", "Videolänk", "Page name",
    "Post reach", "Followers", " Title ", "Insta handle">>

HeaderSets ==
  {headers \in SUBSET {DetectHeaders[i] : i \in 1..Len(DetectHeaders)} :
     Cardinality(headers) <= MaxHeaders}

HeadersGiven(headers) ==
  [fn |-> "detectCSVType", headers |-> headers, done |-> FALSE,
   result |-> Absent]

\* part_002:34-97: a call of detectCSVType
CallDetectCSVType ==
  /\ calc.fn = "detectCSVType"
  /\ ~calc.done
  /\ calc' = [calc EXCEPT !.done = TRUE,
                          !.result = DetectCSVType(calc.headers)]
  /\ UnchangedStores

\* --------------------------------------------- numbers through the processor ---

\* the columns of a row of SpecEngage, by their default English names; the
\* last is the divisor of the engagement rate of the type
EngageColumns(csvType) ==
  <<"Likes", "Comments", "Shares", "Add to favorites",
    IF csvType = OVERVIEW THEN "Reached audience" ELSE "Video views">>

\* the cells of such a row: numbers as Papa.parse gives them, as text or as
\* numbers, an empty cell, or no column (Undefined)
EngageCells ==
  {cells \in [1..5 -> {Undefined, Str(""), Str("50"), Str("200"), Fin(0),
                       Fin(300), Fin(500), Fin(1000), Fin(100000)}] :
     /\ cells[1] \in {Undefined, Fin(1000), Str("50")}
     /\ cells[2] \in {Undefined, Fin(500), Fin(1000)}
     /\ cells[3] \in {Fin(0), Fin(500)}
     /\ cells[4] \in {Undefined, Fin(300)}
     /\ cells[5] \in {Undefined, Str(""), Fin(0), Str("200"), Fin(300),
                      Fin(100000)}}

\* ------------------------------------- dotted texts to parseNumericValue ---

\* texts with a point that 0 to 6 digits follow
DottedTexts ==
  {sign \o whole \o "." \o digits \o tail :
     sign \in {"", "-"},
     whole \in {"", "1", "12"},
     digits \in {"", "2", "23", "234", "2345", "23456", "234567"},
     tail \in {"", ",5", ".5", " kr"}}

\* ---------------------------------------------------- useAccountManager ---
\* The hook's state: accounts is the array of useState([]) (:17).  Every call
\* of the hook below is made while no storage call is in flight and runs to
\* its return, awaiting each request of saveAccount and getAccounts in turn.
Manager(accounts) == [fn |-> "useAccountManager", accounts |-> accounts]

ManagerStep ==
  /\ calc.fn = "useAccountManager"
  /\ AllIdle
  /\ opsLeft > 0
  /\ opsLeft' = opsLeft - 1

\* the ids of the stored accounts: a file is uploaded for one of them, and
\* the clock has moved on since the last of them was created
StoredIds == {GetAccountsResult[i].id : i \in 1..Len(GetAccountsResult)}

\* useAccountManager.js:25-31  loadAccounts: setAccounts(await getAccounts());
\* getAccounts copies the accounts store to localStorage when the array
\* there is empty (part_005:248-268)
LoadAccounts ==
  /\ ManagerStep
  /\ calc' = Manager(GetAccountsResult)
  /\ lsAccounts' = GetAccountsResult
  /\ UNCHANGED <<now, lsData, lsMappings, cachedMappings, idbAccounts, idbData,
                 nextKey, procs, hist, par, faultsLeft, editor>>

\* part_005:275-298  saveAccount(account) when no request fails: the stored
\* array, the accounts store, and the object returned
SaveAccount(account, t, returned) ==
  /\ lsAccounts' = AccountsAfterSave(GetAccountsResult, account, t)
  /\ idbAccounts' = PutAccount(idbAccounts, AccountToStore(account, t))
  /\ returned = AccountToStore(account, t)

\* useAccountManager.js:83-92  createAccount(accountData) with the name n1
CreateAccount ==
  /\ ManagerStep
  /\ \E t \in ClockReadings \ StoredIds :
       /\ now' = t
       /\ \E newAccount \in {AccountToStore(NewAccount, t)} :
            /\ SaveAccount(NewAccount, t, newAccount)
            /\ calc' = Manager(Append(calc.accounts, newAccount))
  /\ UNCHANGED <<lsData, lsMappings, cachedMappings, idbData, nextKey, procs,
                 hist, par, faultsLeft, editor>>

\* useAccountManager.js:123-131  {...existingAccount, ...accountData}: the
\* form changes the name to n2
UpdatedAccount(existingAccount) == [existingAccount EXCEPT !.name = "n2"]

\* useAccountManager.js:110-139  updateAccount(accountId, accountData):
\* existingAccount is taken from the hook's array, the stored account is
\* replaced in the array by what saveAccount returned
UpdateAccount(accountId) ==
  /\ ManagerStep
  /\ FindIndex(calc.accounts, accountId) # 0
  /\ LET existingAccount == calc.accounts[FindIndex(calc.accounts, accountId)]
     IN \E updatedAccount \in {UpdatedAccount(existingAccount)} :
          /\ SaveAccount(UpdatedAccount(existingAccount), now, updatedAccount)
          /\ calc' = Manager([i \in 1..Len(calc.accounts) |->
                                IF calc.accounts[i].id = accountId
                                  THEN updatedAccount ELSE calc.accounts[i]])
  /\ UNCHANGED <<now, lsData, lsMappings, cachedMappings, idbData, nextKey,
                 procs, hist, par, faultsLeft, editor>>

\* --------------------------------------------- names typed in other cases ---
\* names a user can type that differ from a key of the table in case or in
\* the blanks around it only
CasedValues == {"datum", "likes", " Likes"}

\* ---------------------------------------- the promise of processTikTokData ---
\* The promise new Promise((resolve, reject) => ...) of part_002:308.  state
\* and value are what the promise holds; resolve and reject change them only
\* while it is pending.  settles counts the calls of resolve and reject.
\* at is where the call stands:
\*   called   processTikTokData is being called; the executor has not run
\*   timer    the callback of setTimeout (part_002:357) is waiting
\*   done     no code of the call is left to run
\* throwsAt is the place, if any, where a function the call uses throws (or,
\* for "error", where Papa.parse reports through its error callback).
\* csvType is forcedType || detectCSVType(results.meta.fields) of 322, and
\* processed what the steps of 324-428 make of the file when none throws;
\* both depend on the arguments only and are kept with them.
ThrowPlaces == {Absent, "parse", "error", "detect", "validate", "batch"}

PromiseGiven(input, throwsAt) ==
  [fn |-> "promise", file |-> input.file,
   columnMappings |-> input.columnMappings, forcedType |-> input.forcedType,
   csvType |-> IF input.forcedType # Absent THEN input.forcedType
               ELSE DetectCSVType(input.file.fields),
   processed |-> ProcessTikTokData(input.file, input.columnMappings,
                                   input.forcedType),
   throwsAt |-> throwsAt, at |-> "called",
   state |-> "pending", value |-> [rejected |-> FALSE], settles |-> 0]

\* resolve(value) of a promise
Resolve(promise, value) ==
  IF promise.state = "pending"
  THEN [promise EXCEPT !.state = "fulfilled", !.value = value,
                       !.settles = @ + 1]
  ELSE [promise EXCEPT !.settles = @ + 1]

\* reject(error) of a promise
Reject(promise, error) ==
  IF promise.state = "pending"
  THEN [promise EXCEPT !.state = "rejected",
                       !.value = [rejected |-> TRUE, error |-> error],
                       !.settles = @ + 1]
  ELSE [promise EXCEPT !.settles = @ + 1]

\* part_002:357 with 434-437: a batch step that lets an exception escape
\* from the callback of the timer
TimerFires_uncaught ==
  /\ calc.fn = "promise"
  /\ calc.at = "timer"
  /\ calc' =
       IF calc.throwsAt = "batch"
       THEN [calc EXCEPT !.at = "done"]
       ELSE [Resolve(calc, calc.processed) EXCEPT !.at = "done"]
  /\ UnchangedStores

\* part_002:308-444: the executor.  Papa.parse of a string calls complete
\* before it returns, so what complete throws reaches the catch of 441-444.
\* The call ends with the promise rejected, or with the timer set.
Executor(promise) ==
  IF promise.throwsAt = "parse"
  THEN [Reject(promise, "thrown") EXCEPT !.at = "done"]
  ELSE IF promise.throwsAt = "error"
  THEN [Reject(promise, "parse error") EXCEPT !.at = "done"]
  ELSE IF Len(promise.file.data) = 0
  THEN [Reject(promise, "no data") EXCEPT !.at = "done"]
  ELSE IF promise.forcedType = Absent /\ promise.throwsAt = "detect"
  THEN [Reject(promise, "thrown") EXCEPT !.at = "done"]
  ELSE IF CheckWrongPlatform(promise.csvType) # Absent
  THEN [Reject(promise, "wrong platform") EXCEPT !.at = "done"]
  ELSE IF promise.throwsAt = "validate"
  THEN [Reject(promise, "thrown") EXCEPT !.at = "done"]
  ELSE [promise EXCEPT !.at = "timer"]

ExecutorRuns ==
  /\ calc.fn = "promise"
  /\ calc.at = "called"
  /\ calc' = Executor(calc)
  /\ UnchangedStores

\* part_002:357-438: the callback of the timer.  Everything it does is inside
\* try; the catch rejects with what was thrown
TimerCallback(promise) ==
  IF promise.throwsAt = "batch"
  THEN [Reject(promise, "thrown") EXCEPT !.at = "done"]
  ELSE [Resolve(promise, promise.processed) EXCEPT !.at = "done"]

TimerFires ==
  /\ calc.fn = "promise"
  /\ calc.at = "timer"
  /\ calc' = TimerCallback(calc)
  /\ UnchangedStores

\* ------------------------------------------------------ specification ---
\* Nothing stored, nothing in flight
EmptyStores ==
  /\ now = 1
  /\ lsAccounts = <<>>
  /\ lsData = [a \in AccountIds |-> [c \in CSV_TYPES |-> NoSnap]]
  /\ lsMappings = [c \in CSV_TYPES |-> Absent]
  /\ cachedMappings = [c \in CSV_TYPES |-> Absent]
  /\ idbAccounts = {}
  /\ idbData = [c \in CSV_TYPES |-> {}]
  /\ nextKey = [c \in CSV_TYPES |-> 1]
  /\ procs = [p \in Procs |-> Idle]
  /\ hist = <<>>

\* no editor is mounted, no file is being processed
Empty ==
  /\ EmptyStores
  /\ editor = NoEditor
  /\ calc = NoCalc

\* createAccount has returned once, at time 1 and with no failure
FirstAccount == [NewAccount EXCEPT !.id = NewAccountId(1)]

OneAccount ==
  /\ now = 1
  /\ lsAccounts = <<FirstAccount>>
  /\ lsData = [a \in AccountIds |-> [c \in CSV_TYPES |-> NoSnap]]
  /\ lsMappings = [c \in CSV_TYPES |-> Absent]
  /\ cachedMappings = [c \in CSV_TYPES |-> Absent]
  /\ idbAccounts = {FirstAccount}
  /\ idbData = [c \in CSV_TYPES |-> {}]
  /\ nextKey = [c \in CSV_TYPES |-> 1]
  /\ procs = [p \in Procs |-> Idle]
  /\ hist = <<>>
  /\ editor = NoEditor
  /\ calc = NoCalc

\* what saveAccountData stores for the first account (part_005:467-472)
StoredData(csvType, t, data) ==
  [accountId |-> FirstAccount.id, dataType |-> csvType, timestamp |-> t,
   data |-> ProcessedData(data, FirstAccount.id, csvType)]

\* the same as a record of a data store, under key k
RecordAt(k, csvType, t, data) == [id |-> k] @@ StoredData(csvType, t, data)

\* the first account after an upload of each type (part_005:501-505)
BothAccount == [FirstAccount EXCEPT !.hasOverviewData = TRUE, !.hasVideoData = TRUE]

\* createAccount and then an upload of each type have returned, at time 1
\* and with no failure: the overview rows are 1,000,000 characters long, the
\* video rows 999,999
Populated ==
  /\ now = 1
  /\ lsAccounts = <<BothAccount>>
  /\ lsData = [a \in AccountIds |-> [c \in CSV_TYPES |->
                 IF a = FirstAccount.id /\ c = VIDEO
                   THEN StoredData(VIDEO, 1, <<RowA>>) ELSE NoSnap]]
  /\ lsMappings = [c \in CSV_TYPES |-> Absent]
  /\ cachedMappings = [c \in CSV_TYPES |-> Absent]
  /\ idbAccounts = {BothAccount}
  /\ idbData = [c \in CSV_TYPES |->
                 {RecordAt(1, c, 1, IF c = VIDEO THEN <<RowA>> ELSE <<RowB, RowC>>)}]
  /\ nextKey = [c \in CSV_TYPES |-> 2]
  /\ procs = [p \in Procs |-> Idle]
  /\ hist = <<>>
  /\ editor = NoEditor
  /\ calc = NoCalc

\* Calls made one after the other, each awaited; storage requests can fail
Init ==
  /\ Empty \/ Populated
  /\ par = 1
  /\ opsLeft = MaxOps
  /\ faultsLeft = MaxFaults

Next ==
  \E p \in Procs :
    \/ \E a \in AccountIds, c \in CSV_TYPES, d \in RowLists : StartSaveAccountData(p, a, c, d)
    \/ SdRead(p) \/ SdDel(p) \/ SdPut(p) \/ SdGetAcc(p)
    \/ \E a \in AccountIds, c \in CSV_TYPES : StartGetAccountData(p, a, c)
    \/ LdRead(p)
    \/ \E account \in SaveAccountInputs : StartSaveAccount(p, account)
    \/ GetAll(p) \/ AccPut(p)
    \/ \E a \in AccountIds : StartDeleteAccount(p, a)
    \/ DaDelAcc(p) \/ DaReadOv(p) \/ DaReadVid(p) \/ DaDelOv(p) \/ DaDelVid(p)
    \/ StartGetAccounts(p)
    \/ StartGetStorageStats(p)
    \/ StRead(p)
    \/ \E c \in CSV_TYPES, m \in Mappings : UpdateMappings(p, c, m)

Spec == Init /\ [][Next]_vars

\* Uploads and reads of the datasets of one account that overlap: the caller
\* does not await a call before it makes the next one.  No request fails.
InitConc ==
  /\ OneAccount
  /\ par = 2
  /\ opsLeft = MaxConcOps
  /\ faultsLeft = 0

NextConc ==
  \E p \in Procs :
    \/ \E c \in CSV_TYPES, d \in RowLists : StartSaveAccountData(p, FirstAccount.id, c, d)
    \/ SdRead(p) \/ SdDel(p) \/ SdPut(p) \/ SdGetAcc(p)
    \/ AccPut(p)
    \/ \E c \in CSV_TYPES : StartGetAccountData(p, FirstAccount.id, c)
    \/ LdRead(p)

SpecConc == InitConc /\ [][NextConc]_vars

\* Reads of the datasets after uploads of one type for the first account,
\* overlapping or not, failed or not, have left up to MaxRecs records in the
\* data store (overlapping uploads leave one record each, part_005:492-498)
\* and possibly a snapshot in localStorage.  No request fails.
InitLoad ==
  /\ now = 1
  /\ lsAccounts = <<FirstAccount>>
  /\ idbAccounts = {FirstAccount}
  /\ lsMappings = [c \in CSV_TYPES |-> Absent]
  /\ cachedMappings = [c \in CSV_TYPES |-> Absent]
  /\ procs = [p \in Procs |-> Idle]
  /\ hist = <<>>
  /\ editor = NoEditor
  /\ calc = NoCalc
  /\ \E c \in CSV_TYPES, n \in 0..MaxRecs :
       \E ts \in [1..n -> 1..MaxClock], ds \in [1..n -> RowLists],
          snap \in {NoSnap} \cup {StoredData(c, t, <<RowA>>) : t \in 1..MaxClock} :
         /\ idbData = [x \in CSV_TYPES |->
                         IF x = c THEN {RecordAt(k, c, ts[k], ds[k]) : k \in 1..n} ELSE {}]
         /\ nextKey = [x \in CSV_TYPES |-> IF x = c THEN n + 1 ELSE 1]
         /\ lsData = [a \in AccountIds |-> [x \in CSV_TYPES |->
                        IF a = FirstAccount.id /\ x = c THEN snap ELSE NoSnap]]
  /\ par = 1
  /\ opsLeft = MaxOps
  /\ faultsLeft = 0

NextLoad ==
  \E p \in Procs :
    \/ \E a \in AccountIds, c \in CSV_TYPES : StartGetAccountData(p, a, c)
    \/ LdRead(p)

SpecLoad == InitLoad /\ [][NextLoad]_vars

\* A session of the column-mapping editor: reads and writes of the mapping
\* tables, one after the other; localStorage can fail
InitMap ==
  /\ Empty
  /\ par = 1
  /\ opsLeft = MaxMapOps
  /\ faultsLeft = MaxFaults

NextMap ==
  \E p \in Procs, c \in CSV_TYPES :
    \/ GetCurrentMappings(p, c)
    \/ \E m \in MappingTables : UpdateMappings(p, c, m)
    \/ ResetMappings(p, c)
    \/ \E content \in FileContents : WriteFile(p, c, content)

SpecMap == InitMap /\ [][NextMap]_vars

\* A session in the editor of the overview table: edits typed into the inputs
\* and clicks on the example names
InitEdit ==
  /\ EmptyStores
  /\ editor = EditorLoaded
  /\ calc = NoCalc
  /\ par = 1
  /\ opsLeft = 0
  /\ faultsLeft = 0

NextEdit ==
  \E f \in EditorFields, language \in {"sv", "en"} :
    \/ \E v \in TypedValues : TypeValue(f, language, v)
    \/ \E name \in GetAlternativeNames(f, editor.mappings) :
         HandleExampleClick(name, f, language)

SpecEdit == InitEdit /\ [][NextEdit]_vars

\* An upload: a file is chosen in the uploader, its type is detected, the
\* user may pick a type, and presses the upload button
InitUpload ==
  /\ EmptyStores
  /\ editor = NoEditor
  /\ par = 1
  /\ opsLeft = 0
  /\ faultsLeft = 0
  /\ \E file \in UploadFiles, forcedFileType \in {Absent, OVERVIEW, VIDEO} :
       calc = FileChosen(file, forcedFileType)

NextUpload ==
  \/ DetectFile
  \/ \E type \in {OVERVIEW, VIDEO} : SetSelectedFileType(type)
  \/ HandleUpload

SpecUpload == InitUpload /\ [][NextUpload]_vars

\* One row of a file goes through mapRow and the calculation
InitDerive ==
  /\ EmptyStores
  /\ editor = NoEditor
  /\ par = 1
  /\ opsLeft = 0
  /\ faultsLeft = 0
  /\ \E csvType \in CSV_TYPES, cells \in [1..3 -> CellValues] :
       calc = RowGiven(csvType, RawRow(DerivedColumns(csvType), cells))

NextDerive == DeriveRow

SpecDerive == InitDerive /\ [][NextDerive]_vars

\* One call of parseNumericValue
InitNumeric ==
  /\ EmptyStores
  /\ editor = NoEditor
  /\ par = 1
  /\ opsLeft = 0
  /\ faultsLeft = 0
  /\ \E value \in NumericInputs : calc = ValueGiven(value)

NextNumeric == CallParseNumericValue

SpecNumeric == InitNumeric /\ [][NextNumeric]_vars

\* One call of processTikTokData
InitProcess ==
  /\ EmptyStores
  /\ editor = NoEditor
  /\ par = 1
  /\ opsLeft = 0
  /\ faultsLeft = 0
  /\ \E input \in ProcessInputs : calc = ProcessGiven(input)

NextProcess == CallProcessTikTokData

SpecProcess == InitProcess /\ [][NextProcess]_vars

\* One call of mapRow on a row with the default names of one language
InitMapRow ==
  /\ EmptyStores
  /\ editor = NoEditor
  /\ par = 1
  /\ opsLeft = 0
  /\ faultsLeft = 0
  /\ \E locale \in Locales : \E row \in LocaleRows(locale) :
       calc = RawRowGiven(locale, row)

NextMapRow == CallMapRow

SpecMapRow == InitMapRow /\ [][NextMapRow]_vars

\* One call of validateRequiredColumns
InitValidate ==
  /\ EmptyStores
  /\ editor = NoEditor
  /\ par = 1
  /\ opsLeft = 0
  /\ faultsLeft = 0
  /\ \E input \in ValidateInputs : calc = ValidateGiven(input)

NextValidate == CallValidateRequiredColumns

SpecValidate == InitValidate /\ [][NextValidate]_vars

\* The reset of all data, asked once, while other pages can have the
\* database open and the deletion can fail
InitReset ==
  /\ Empty \/ OneAccount \/ Populated
  /\ par = 1
  /\ opsLeft = 0
  /\ faultsLeft = MaxFaults

NextReset ==
  \/ \E connections \in 0..MaxConnections : HandleReset(connections)
  \/ CloseConnection
  \/ DeleteBlocked
  \/ DeleteSucceeds
  \/ DeleteFails
  \/ TimeoutFires
  \/ TellUser
  \/ Reload

SpecReset == InitReset /\ [][NextReset]_vars

\* The same reset with what the browser guarantees: a timer that was started
\* fires, and the code after an await runs once the promise has settled.
\* Nothing makes the deletion answer.
SpecResetLive ==
  /\ InitReset
  /\ [][NextReset]_vars
  /\ WF_vars(TimeoutFires)
  /\ WF_vars(TellUser)
  /\ WF_vars(Reload)

\* One call of detectCSVType
InitDetect ==
  /\ EmptyStores
  /\ editor = NoEditor
  /\ par = 1
  /\ opsLeft = 0
  /\ faultsLeft = 0
  /\ \E headers \in HeaderSets : calc = HeadersGiven(headers)

NextDetect == CallDetectCSVType

SpecDetect == InitDetect /\ [][NextDetect]_vars

\* One row of numbers goes through mapRow and the calculation
InitEngage ==
  /\ EmptyStores
  /\ editor = NoEditor
  /\ par = 1
  /\ opsLeft = 0
  /\ faultsLeft = 0
  /\ \E csvType \in CSV_TYPES, cells \in EngageCells :
       calc = RowGiven(csvType, RawRow(EngageColumns(csvType), cells))

NextEngage == DeriveRow

SpecEngage == InitEngage /\ [][NextEngage]_vars

\* One call of parseNumericValue on a text with a point
InitDotted ==
  /\ EmptyStores
  /\ editor = NoEditor
  /\ par = 1
  /\ opsLeft = 0
  /\ faultsLeft = 0
  /\ \E s \in DottedTexts : calc = ValueGiven(Str(s))

NextDotted == CallParseNumericValue

SpecDotted == InitDotted /\ [][NextDotted]_vars

\* The account manager is mounted over one stored account and has loaded
\* it; files are uploaded for the listed accounts while it is open.
InitManage ==
  /\ now = 1
  /\ lsAccounts = <<FirstAccount>>
  /\ lsData = [a \in AccountIds |-> [c \in CSV_TYPES |-> NoSnap]]
  /\ lsMappings = [c \in CSV_TYPES |-> Absent]
  /\ cachedMappings = [c \in CSV_TYPES |-> Absent]
  /\ idbAccounts = {FirstAccount}
  /\ idbData = [c \in CSV_TYPES |-> {}]
  /\ nextKey = [c \in CSV_TYPES |-> 1]
  /\ procs = [p \in Procs |-> Idle]
  /\ hist = <<>>
  /\ editor = NoEditor
  /\ calc = Manager(<<FirstAccount>>)
  /\ par = 1
  /\ opsLeft = MaxManagerOps
  /\ faultsLeft = 0

NextManage ==
  \/ LoadAccounts
  \/ CreateAccount
  \/ \E a \in AccountIds : UpdateAccount(a)
  \/ \E p \in Procs :
       \/ \E a \in StoredIds, c \in CSV_TYPES, d \in RowLists :
            StartSaveAccountData(p, a, c, d)
       \/ SdRead(p) \/ SdDel(p) \/ SdPut(p) \/ SdGetAcc(p)
       \/ AccPut(p)

SpecManage == InitManage /\ [][NextManage]_vars

\* The editor on the default table; the user types names that differ from
\* keys of the table in case or surrounding blanks, or presses an example
InitCased == InitEdit

NextCased ==
  \E f \in EditorFields, language \in {"sv", "en"} :
    \/ \E v \in CasedValues : TypeValue(f, language, v)
    \/ \E name \in GetAlternativeNames(f, editor.mappings) :
         HandleExampleClick(name, f, language)

SpecCased == InitCased /\ [][NextCased]_vars

\* One call of processTikTokData on a small file, with a function throwing
\* at one place or at none.  The executor runs when the call is made and
\* the timer of setTimeout fires.
InitSettle ==
  /\ EmptyStores
  /\ editor = NoEditor
  /\ par = 1
  /\ opsLeft = 0
  /\ faultsLeft = 0
  /\ \E input \in SmallInputs \cup CompleteInputs, throwsAt \in ThrowPlaces :
       calc = PromiseGiven(input, throwsAt)

NextSettle == ExecutorRuns \/ TimerFires

SpecSettle ==
  InitSettle /\ [][NextSettle]_vars /\ WF_vars(ExecutorRuns) /\ WF_vars(TimerFires)

\* --------------------------------------------------------- properties ---
\* The rows a caller passed, each stamped with the account
Stamped(rows, acc) ==
  [i \in 1..Len(rows) |-> [rows[i] EXCEPT !.accountId = acc]]

\* The rows a caller passed, each stamped with the account and with the date
\* column of the type (date for overview, publish_time for video) in ISO form
\* where it holds a date
Normalised(rows, acc, cat) ==
  [i \in 1..Len(rows) |->
     [rows[i] EXCEPT !.accountId = acc,
                     !.date = IF cat = OVERVIEW /\ @ = RawDate THEN IsoDate ELSE @,
                     !.publish_time = IF cat = VIDEO /\ @ = RawDate THEN IsoDate ELSE @]]

\* what getAccountData answers in the current state when its reads succeed
Load(acc, cat) == GetAccountDataResult(acc, cat, TRUE)

\* nothing is in flight and the call that returned last is a saveAccountData
SaveReturned == AllIdle /\ hist # <<>> /\ LastResult.op = "saveAccountData"

\* C1 as the claim states it: after saveAccountData(acc, cat, rowsA) and then
\* saveAccountData(acc, cat, rowsB) have returned true, getAccountData(acc,
\* cat) returns exactly the rows of rowsB, in order, each with accountId = acc.
C1_ExactlyRowsB ==
  (SaveReturned /\ LastResult.ok /\ LastResult.afterSave)
    => Load(LastResult.acc, LastResult.cat) = Stamped(LastResult.rows, LastResult.acc)

\* C1 amended: after the two saves have returned true, getAccountData(acc,
\* cat) returns the rows of rowsB and no others, in order, each with
\* accountId = acc and with the date column of the type rewritten to its ISO
\* form where it holds a date; nothing of rowsA is returned, whatever the
\* sizes of the two payloads.
C1_ReplaceNotMerge ==
  (SaveReturned /\ LastResult.ok /\ LastResult.afterSave)
    => Load(LastResult.acc, LastResult.cat)
         = Normalised(LastResult.rows, LastResult.acc, LastResult.cat)

\* a payload above the threshold has replaced one below it, and is read back
C1_Witness ==
  /\ SaveReturned /\ LastResult.ok /\ LastResult.afterSave
  /\ LastResult.prevRows = <<RowA>> /\ LastResult.rows = <<RowB, RowC>>
  /\ Load(LastResult.acc, LastResult.cat)
       = Normalised(<<RowB, RowC>>, LastResult.acc, LastResult.cat)

\* C2: once both saves of an account's data have succeeded and deleteAccount
\* has returned true, getAccountData returns the empty array for both types.
C2_CascadeDelete ==
  (AllIdle /\ hist # <<>> /\ LastResult.op = "deleteAccount"
     /\ LastResult.ok /\ LastResult.hadBoth)
    => \A c \in CSV_TYPES : Load(LastResult.acc, c) = <<>>

\* C3: a getAccountData that returns while a saveAccountData for the same
\* account and type is replacing a stored dataset returns the rows stored
\* before that save or the rows of that save.
C3_NoMidTransition ==
  \A q \in Procs :
    (/\ procs[q].op = "saveAccountData" /\ procs[q].quiet /\ procs[q].hadRec
     /\ hist # <<>>
     /\ LastResult.op = "getAccountData"
     /\ LastResult.acc = procs[q].acc /\ LastResult.cat = procs[q].cat)
      => LastResult.rowsOut
           \in {procs[q].before, Normalised(procs[q].rows, procs[q].acc, procs[q].cat)}

\* C4: when a saveAccountData for overview and one for video of the same
\* account overlap and both have returned true, getAccountData returns the
\* rows of each and the stored account has both flags set.
C4_IndependentKeys ==
  (/\ AllIdle /\ Len(hist) = 2
   /\ hist[1].op = "saveAccountData" /\ hist[2].op = "saveAccountData"
   /\ hist[1].acc = hist[2].acc /\ hist[1].cat # hist[2].cat
   /\ hist[1].ok /\ hist[2].ok)
    => /\ \A k \in 1..2 :
            Load(hist[k].acc, hist[k].cat) = Normalised(hist[k].rows, hist[k].acc, hist[k].cat)
       /\ \A a \in idbAccounts :
            a.id = hist[1].acc => a.hasOverviewData /\ a.hasVideoData
       /\ \A i \in 1..Len(GetAccountsResult) :
            GetAccountsResult[i].id = hist[1].acc
              => GetAccountsResult[i].hasOverviewData /\ GetAccountsResult[i].hasVideoData

\* C5: after a saveAccountData that returned false, getAccountData returns
\* what it returned before the call.
C5_FailedSaveAtomic ==
  (SaveReturned /\ ~LastResult.ok)
    => Load(LastResult.acc, LastResult.cat) = LastResult.before

\* C6: a saveAccount, deleteAccount, saveAccountData or updateMappings during
\* which a write to the durable store (or to the only store of the data)
\* failed rejects or returns false; updateMappings returns true only if the
\* mapping is stored, deleteAccount only if the account's records are gone.
C6_NoHiddenFailure ==
  (AllIdle /\ hist # <<>>
     /\ LastResult.op \in {"saveAccount", "deleteAccount", "saveAccountData", "updateMappings"})
    => /\ LastResult.durFail => (LastResult.rejected \/ ~LastResult.ok)
       /\ (LastResult.op = "updateMappings" /\ LastResult.ok)
            => lsMappings[LastResult.cat] = LastResult.mapping
       /\ (LastResult.op = "deleteAccount" /\ LastResult.ok)
            => \A c \in CSV_TYPES : \A r \in idbData[c] : r.accountId # LastResult.acc

\* C7: when getAccountData(acc, cat) returns, its result is the rows of a
\* record with the greatest timestamp if the data store holds a record for
\* the account; else the rows of the localStorage snapshot if there is one;
\* else the empty array.  Every row returned has accountId = acc.
C7_TierPreference ==
  [][\A p \in Procs :
       (procs[p].op = "getAccountData" /\ procs'[p].op = "idle")
         => LET acc == procs[p].acc
                cat == procs[p].cat
                out == hist'[Len(hist')].rowsOut
                recs == {r \in idbData[cat] : r.accountId = acc}
                snap == lsData[acc][cat]
            IN /\ recs # {} =>
                    \E r \in recs :
                      /\ \A o \in recs : o.timestamp <= r.timestamp
                      /\ out = Stamped(r.data, acc)
               /\ (recs = {} /\ snap # NoSnap) => out = Stamped(snap.data, acc)
               /\ (recs = {} /\ snap = NoSnap) => out = <<>>
               /\ \A i \in 1..Len(out) : out[i].accountId = acc]_vars

\* a read that found two records of different age and returned the newer
C7_Witness ==
  /\ hist # <<>> /\ LastResult.op = "getAccountData"
  /\ \E r, o \in idbData[LastResult.cat] :
       /\ r.accountId = LastResult.acc /\ o.accountId = LastResult.acc
       /\ o.timestamp < r.timestamp /\ o.data # r.data
       /\ LastResult.rowsOut = Stamped(r.data, LastResult.acc)

\* the read calls
ReadOps == {"getAccounts", "getAccountData", "getStorageStats"}

\* the statistics of a failed getStorageStats
ZeroedStats(st) ==
  /\ st.error
  /\ st.used = 0 /\ st.accountsCount = 0
  /\ st.overviewDataCount = 0 /\ st.videoDataCount = 0

\* C8 as the claim states it: getAccounts, getAccountData and getStorageStats
\* never reject; when a storage read fails during the call they resolve to
\* the empty list, the empty array, and zeroed statistics with the error flag.
C8_EmptyOnAnyFailure ==
  (AllIdle /\ hist # <<>> /\ LastResult.op \in ReadOps)
    => /\ ~LastResult.rejected
       /\ (LastResult.lsReadFail \/ LastResult.idbReadFail)
            => /\ LastResult.op = "getAccounts" => LastResult.listOut = <<>>
               /\ LastResult.op = "getAccountData" => LastResult.rowsOut = <<>>
               /\ LastResult.op = "getStorageStats" => ZeroedStats(LastResult.stats)

\* C8 amended: the three calls never reject; when a storage read fails
\* getAccountData resolves to the empty array and getStorageStats to zeroed
\* statistics with the error flag; getAccounts resolves to the empty list
\* when its read of the accounts store fails, and to the accounts of the
\* accounts store when only its read of localStorage fails.
C8_ReadsNeverReject ==
  (AllIdle /\ hist # <<>> /\ LastResult.op \in ReadOps)
    => /\ ~LastResult.rejected
       /\ (LastResult.lsReadFail \/ LastResult.idbReadFail)
            => /\ LastResult.op = "getAccountData" => LastResult.rowsOut = <<>>
               /\ LastResult.op = "getStorageStats" => ZeroedStats(LastResult.stats)
       /\ (LastResult.op = "getAccounts" /\ LastResult.idbReadFail)
            => LastResult.listOut = <<>>
       /\ (LastResult.op = "getAccounts" /\ LastResult.lsReadFail /\ ~LastResult.idbReadFail)
            => LastResult.listOut = InKeyOrder(idbAccounts)

\* getAccounts could not read localStorage and answered from the accounts store
C8_Witness ==
  /\ AllIdle /\ hist # <<>> /\ LastResult.op = "getAccounts"
  /\ LastResult.lsReadFail /\ ~LastResult.rejected
  /\ LastResult.listOut # <<>>

\* the data store holds the rows of the save that returned last
DurableHolds ==
  \E r \in idbData[LastResult.cat] :
    /\ r.accountId = LastResult.acc
    /\ r.data = Normalised(LastResult.rows, LastResult.acc, LastResult.cat)

\* C9 as the claim states it: after saveAccountData returned true the data
\* store holds a record with the rows, and the call wrote the localStorage
\* snapshot if and only if the serialized rows are shorter than 1,000,000.
C9_SnapshotIffSmall ==
  (SaveReturned /\ LastResult.ok)
    => /\ DurableHolds
       /\ LastResult.wroteFast <=> JsonLength(LastResult.rows) < 1000000

\* C9 amended: after saveAccountData returned true the data store holds a
\* record with the rows; the call wrote the localStorage snapshot if and
\* only if the serialized rows are shorter than 1,000,000 and the write to
\* localStorage did not fail (a failure the call does not report).
C9_TierChoice ==
  (SaveReturned /\ LastResult.ok)
    => /\ DurableHolds
       /\ LastResult.wroteFast
            <=> (JsonLength(LastResult.rows) < 1000000 /\ ~LastResult.fastFail)
       /\ LastResult.wroteFast
            => lsData[LastResult.acc][LastResult.cat].data
                 = Normalised(LastResult.rows, LastResult.acc, LastResult.cat)

\* a payload of exactly 1,000,000 characters went to the data store only
C9_Witness ==
  /\ SaveReturned /\ LastResult.ok
  /\ JsonLength(LastResult.rows) = 1000000
  /\ ~LastResult.wroteFast
  /\ DurableHolds

\* C10: no two accounts that getAccounts returns have the same id.
C10_UniqueIds ==
  AllIdle
    => \A i, j \in 1..Len(GetAccountsResult) :
         i # j => GetAccountsResult[i].id # GetAccountsResult[j].id

\* C11: a getCurrentMappings(c) made right after a write of the table of c
\* (updateMappings, resetMappings, or writeFile on the mapping file) has
\* stored it, and whose own read of localStorage does not fail, returns the
\* table that was written.
C11_CacheConsistency ==
  (/\ AllIdle /\ hist # <<>>
   /\ LastResult.op = "getCurrentMappings"
   /\ LastResult.afterWrite /\ ~LastResult.lsReadFail)
    => LastResult.mapOut = LastResult.written

\* C12: an edit that gives a field a blank name, or a name that is a key of
\* the table mapped to another field, ends with the error set and with
\* every entry of the table as it was.
C12_CollisionRejected ==
  LET e == editor.last
  IN (/\ editor.edits > 0
      /\ \/ IsBlank(e.value)
         \/ \E i \in 1..Len(e.before) :
              e.before[i].k = e.value /\ e.before[i].v # e.field)
       => (editor.error # Absent /\ editor.mappings = e.before)

\* the headers match an indicator of Facebook or Instagram and none of the
\* two TikTok types
OnlyForeign(headers) ==
  /\ Matches(OVERVIEW, headers) = 0
  /\ Matches(VIDEO, headers) = 0
  /\ Matches(FACEBOOK, headers) > 0 \/ Matches(INSTAGRAM, headers) > 0

\* C13: when the upload of a file with rows whose headers match only
\* indicators of a foreign platform has ended, processing was rejected with
\* the wrong-platform error and saveAccountData was not called.
C13_WrongPlatformHardStop ==
  (/\ calc.fn = "upload" /\ calc.uploaded
   /\ Len(calc.file.data) > 0
   /\ OnlyForeign(calc.file.fields))
    => /\ calc.outcome.rejected
       /\ calc.outcome.error = "wrong platform"
       /\ ~calc.saved.called

\* C14: interactions and engagement_rate of a row that went through mapRow
\* and the calculation are finite numbers.
C14_NoNaN ==
  (calc.fn = "derive" /\ calc.done)
    => /\ IsFinite(Get(calc.result, "interactions"))
       /\ IsFinite(Get(calc.result, "engagement_rate"))

\* C15: what parseNumericValue returns is a finite number, whatever it is
\* given.
C15_TotalSafety ==
  (calc.fn = "parseNumericValue" /\ calc.done) => IsFinite(calc.result)

\* the type the call works with, and whether it is one of the two of TikTok
ResolvedType ==
  IF calc.forcedType # Absent THEN calc.forcedType
  ELSE DetectCSVType(calc.file.fields)

Supported == CheckWrongPlatform(ResolvedType) = Absent

\* the row a single pass makes of a parsed row
SinglePass(row) ==
  LET derived == MapThenCalculate(row, calc.columnMappings, ResolvedType)
  IN IF ResolvedType = VIDEO
     THEN SetKey(derived, "publication_count", Fin(100))
     ELSE derived

Min(a, b) == IF a < b THEN a ELSE b

\* the call resolved with the first min(n, 5000) rows, each as a single pass
\* makes it, and with the counts and the flag of the truncation
TruncatedAndBatched ==
  LET n == Len(calc.file.data)
      m == Min(n, 5000)
  IN /\ ~calc.result.rejected
     /\ Len(calc.result.data) = m
     /\ \A i \in 1..m : calc.result.data[i] = SinglePass(calc.file.data[i])
     /\ calc.result.meta.rowCount = m
     /\ calc.result.meta.totalRows = n
     /\ calc.result.meta.isLimited <=> n > 5000

\* C16: for an input of n parsed rows of a supported type, n >= 0, the call
\* resolves with the first min(n, 5000) rows in input order, each equal to
\* the single pass over its input row, with rowCount = min(n, 5000),
\* totalRows = n and isLimited iff n > 5000.
C16_AnyRowCount ==
  (calc.fn = "process" /\ calc.done /\ Supported) => TruncatedAndBatched

\* C16 amended: the same for n >= 1; a file without rows is rejected.
C16_TruncationAndBatching ==
  (calc.fn = "process" /\ calc.done /\ Supported)
    => IF Len(calc.file.data) >= 1 THEN TruncatedAndBatched
       ELSE calc.result.rejected /\ calc.result.error = "no data"

\* 5001 rows went in, in batches of 500 the first 5000 came out
C16_Witness ==
  /\ calc.fn = "process" /\ calc.done
  /\ Len(calc.file.data) = 5001
  /\ ~calc.result.rejected
  /\ calc.result.meta.isLimited
  /\ Len(calc.result.data) = 5000

\* C17: a call on a file with at least one row whose type is supported
\* resolves, whether or not required columns are missing, and the
\* missingColumns of its metadata is the list validateRequiredColumns gives
\* for the headers of the file and the mapping table of the call.
C17_MissingIsSoft ==
  (/\ calc.fn = "process" /\ calc.done
   /\ Supported /\ Len(calc.file.data) >= 1)
    => /\ ~calc.result.rejected
       /\ calc.result.meta.missingColumns
            = ValidateRequiredColumns(ArrayOf(calc.file.fields),
                                      ObjectOf(calc.columnMappings),
                                      ResolvedType).missingColumns

\* a call resolved although required columns were missing
C17_Witness ==
  /\ calc.fn = "process" /\ calc.done
  /\ ~calc.result.rejected
  /\ Len(calc.result.data) >= 1
  /\ calc.result.meta.missingColumns # <<>>

\* C18: for both types and both languages, mapRow with the default table of
\* the type takes a row whose columns carry the default names of the
\* language to a row that has every required field of the type.
C18_RoundTrip ==
  (calc.fn = "mapRow" /\ calc.done)
    => \A i \in 1..Len(RequiredFields(calc.csvType)) :
         /\ HasKey(calc.result, RequiredFields(calc.csvType)[i])
         /\ Get(calc.result, RequiredFields(calc.csvType)[i])
              = ProcessedValue(
                  Get(calc.row, calc.names[RequiredFields(calc.csvType)[i]]))

\* an English video row came out with its six required fields
C18_Witness ==
  /\ calc.fn = "mapRow" /\ calc.done
  /\ calc.csvType = VIDEO /\ calc.names = VIDEO_FIELDS_ENGLISH
  /\ HasKey(calc.row, "Post time")
  /\ \A i \in 1..Len(REQUIRED_VIDEO_FIELDS) :
       HasKey(calc.result, REQUIRED_VIDEO_FIELDS[i])

\* some name mapped to the field and some header have the same normalized form
NormalizedMatch(field) ==
  \E i \in 1..Len(calc.columnMappings.object) :
    /\ calc.columnMappings.object[i].v = field
    /\ \E h \in calc.headers.array :
         NormalizeText(calc.columnMappings.object[i].k) = NormalizeText(h)

ReportedMissing(field) ==
  \E i \in 1..Len(calc.result.missingColumns) :
    calc.result.missingColumns[i]
      = (IF calc.csvType = OVERVIEW THEN OVERVIEW_FIELDS ELSE VIDEO_FIELDS)[field]

\* C19: validateRequiredColumns reports a required field as missing exactly
\* when no name mapped to it has the normalized form (trimmed, lower case,
\* white space collapsed, invisible characters removed) of some header, and
\* isValid is true in a result exactly when its list of missing columns is
\* empty.
C19_ExactValidation ==
  (calc.fn = "validateRequiredColumns" /\ calc.done)
    => /\ (DOMAIN calc.headers = {"array"} /\ calc.columnMappings # Null)
            => \A i \in 1..Len(RequiredFields(calc.csvType)) :
                 ReportedMissing(RequiredFields(calc.csvType)[i])
                   <=> ~NormalizedMatch(RequiredFields(calc.csvType)[i])
       /\ calc.result.isValid <=> (calc.result.missingColumns = <<>>)

\* C20: when the code after the race goes on while the deletion of the
\* database has not succeeded (the 5 seconds passed, or the deletion is
\* blocked, pending or failed), the user is not told that all data has been
\* reset: the message is the one of a reset that is still completing.
C20_NoFalseSuccess ==
  [][(/\ calc.fn = "handleReset"
      /\ calc.pc = "racing"
      /\ calc'.pc = "told"
      /\ calc.request # "success")
       => calc'.successMessage = Completing]_vars

IndicatorCount(type) ==
  Cardinality({indicator \in CSV_TYPE_INDICATORS[type] :
                 \E h \in calc.headers :
                   Includes(ToLowerCase(Trim(h)), ToLowerCase(indicator))})

HighestCount ==
  CHOOSE n \in 0..20 :
    /\ \E i \in 1..4 : IndicatorCount(IndicatorTypes[i]) = n
    /\ \A i \in 1..4 : IndicatorCount(IndicatorTypes[i]) <= n

\* C22: when a type has 2 or more of its indicators matched, detectCSVType
\* returns the type with the most matches, and of the types with the most
\* matches the first in the order overview, video, facebook, instagram.
C22_DetectionByScore ==
  (calc.fn = "detectCSVType" /\ calc.done /\ HighestCount >= 2)
    => \E i \in 1..4 :
         /\ calc.result = IndicatorTypes[i]
         /\ IndicatorCount(IndicatorTypes[i]) = HighestCount
         /\ \A j \in 1..(i - 1) : IndicatorCount(IndicatorTypes[j]) < HighestCount

\* two types had the most matches, 2 or more, and the first was returned
C22_Witness ==
  /\ calc.fn = "detectCSVType" /\ calc.done
  /\ HighestCount >= 2
  /\ \E i, j \in 1..4 :
       /\ i < j
       /\ IndicatorCount(IndicatorTypes[i]) = HighestCount
       /\ IndicatorCount(IndicatorTypes[j]) = HighestCount
       /\ calc.result = IndicatorTypes[i]

\* the headers of the call as part_002:40 normalizes them
LowerTrimmed == {ToLowerCase(Trim(h)) : h \in calc.headers}

DateLike == \E h \in LowerTrimmed : h \in {"datum", "date"}

TitleLike ==
  \E h \in LowerTrimmed :
    h \in {"videotitel", "video title", "title"} \/ Includes(h, "video")

FacebookHint ==
  \E h \in LowerTrimmed : Includes(h, "facebook") \/ Includes(h, "page")

InstagramHint ==
  \E h \in LowerTrimmed : Includes(h, "instagram") \/ Includes(h, "insta")

\* C23: when no type has 2 of its indicators matched, detectCSVType returns
\* overview if a header is a date header, else video if a header is a title
\* header, else facebook or instagram if a header hints at that platform,
\* else unknown; it returns overview or video only with such a header.
C23_FallbackPrecedence ==
  (calc.fn = "detectCSVType" /\ calc.done /\ HighestCount < 2)
    => /\ DateLike => calc.result = OVERVIEW
       /\ (~DateLike /\ TitleLike) => calc.result = VIDEO
       /\ (~DateLike /\ ~TitleLike /\ FacebookHint) => calc.result = FACEBOOK
       /\ (~DateLike /\ ~TitleLike /\ ~FacebookHint /\ InstagramHint)
            => calc.result = INSTAGRAM
       /\ (~DateLike /\ ~TitleLike /\ ~FacebookHint /\ ~InstagramHint)
            => calc.result = UNKNOWN
       /\ calc.result = OVERVIEW => DateLike
       /\ calc.result = VIDEO => TitleLike

\* a date header and a title header with fewer than 2 matches: overview
C23_Witness ==
  /\ calc.fn = "detectCSVType" /\ calc.done
  /\ HighestCount < 2
  /\ DateLike /\ TitleLike
  /\ calc.result = OVERVIEW

\* the number in a cell of a row of SpecEngage, in hundredths; 0 for an empty
\* cell and for a column the row lacks
Hundredths(cell) ==
  CASE cell = Str("50") -> 5000
    [] cell = Str("200") -> 20000
    [] cell \in {Undefined, Str("")} -> 0
    [] OTHER -> cell.fin

Cell(column) == Hundredths(Get(calc.row, column))

ExpectedInteractions ==
  Cell("Likes") + Cell("Comments") + Cell("Shares")
    + (IF calc.csvType = VIDEO THEN Cell("Add to favorites") ELSE 0)

Divisor ==
  Cell(IF calc.csvType = OVERVIEW THEN "Reached audience" ELSE "Video views")

\* rate, in hundredths, is interactions / divisor * 100 rounded to 2 decimals
IsRounded(rate, interactions, divisor) ==
  /\ 2 * divisor * rate <= 2 * 10000 * interactions + divisor
  /\ 2 * divisor * rate > 2 * 10000 * interactions - divisor

\* C24: interactions of an overview row is likes + comments + shares, and of
\* a video row the same plus favorites; engagement_rate is interactions /
\* reach * 100 (views for a video row) rounded to 2 decimals when the divisor
\* is above 0, and 0 when it is 0 or absent.  Reach 200 with 10, 5 and 5
\* gives 10.00; reach 1000 with 50, 10 and 5 gives 65 and 6.5.
C24_EngagementFormula ==
  (calc.fn = "derive" /\ calc.done)
    => /\ Get(calc.result, "interactions") = Fin(ExpectedInteractions)
       /\ IsFin(Get(calc.result, "engagement_rate"))
       /\ IF Divisor > 0
          THEN IsRounded(Get(calc.result, "engagement_rate").fin,
                         ExpectedInteractions, Divisor)
          ELSE Get(calc.result, "engagement_rate") = Fin(0)
       /\ (/\ calc.csvType = OVERVIEW
           /\ Cell("Reached audience") = 20000 /\ Cell("Likes") = 1000
           /\ Cell("Comments") = 500 /\ Cell("Shares") = 500)
            => Get(calc.result, "engagement_rate") = Fin(1000)
       /\ (/\ calc.csvType = OVERVIEW
           /\ Cell("Reached audience") = 100000 /\ Cell("Likes") = 5000
           /\ Cell("Comments") = 1000 /\ Cell("Shares") = 500)
            => /\ Get(calc.result, "interactions") = Fin(6500)
               /\ Get(calc.result, "engagement_rate") = Fin(650)

\* a video row with favorites whose rate, 23 / 3 * 100, was rounded up
C24_Witness ==
  /\ calc.fn = "derive" /\ calc.done
  /\ calc.csvType = VIDEO
  /\ Cell("Add to favorites") = 300
  /\ Cell("Video views") = 300
  /\ Get(calc.result, "interactions") = Fin(2300)
  /\ Get(calc.result, "engagement_rate") = Fin(76667)

\* the text without the points that exactly three digits follow
RECURSIVE WithoutSeparators(_)
WithoutSeparators(s) ==
  IF Len(s) = 0 THEN ""
  ELSE (IF CharAt(s, 1) = "." /\ LeadingDigits(SubSeq(s, 2, Len(s))) = 3
        THEN "" ELSE CharAt(s, 1))
         \o WithoutSeparators(SubSeq(s, 2, Len(s)))

\* the number of a text whose points are kept unless exactly three digits
\* follow them; 0 if it is no number.  Numbers are kept to two decimals.
SeparatorsOnly(s) ==
  LET num == ParseFloatString(
               CommasToPoints(WithoutSeparators(RemoveWhiteSpace(s))))
  IN IF IsNaN(num) THEN Fin(0) ELSE num

\* C25: parseNumericValue removes a point of a text only if exactly three
\* digits follow it; a point that four or more digits follow, or fewer than
\* three, stays a decimal point: "1.234" gives 1234 and "1.2345" gives 1.2345.
C25_ExactlyThreeDigits ==
  (calc.fn = "parseNumericValue" /\ calc.done /\ IsStr(calc.value))
    => calc.result = SeparatorsOnly(calc.value.str)

\* C26: status flags track stored data.  Whenever no call is in flight,
\* every account that getAccounts returns and for which getAccountData
\* answers a non-empty array for a type has the flag of that type true; an
\* edit of the account made from the array the hook holds does not set the
\* flag of an uploaded type back to false.
HasFlag(account, csvType) ==
  IF csvType = OVERVIEW THEN account.hasOverviewData ELSE account.hasVideoData

C26_FlagsTrackData ==
  AllIdle =>
    \A i \in 1..Len(GetAccountsResult), c \in CSV_TYPES :
      Len(GetAccountDataResult(GetAccountsResult[i].id, c, TRUE)) > 0
        => HasFlag(GetAccountsResult[i], c)

\* C27: snapshots in localStorage are never stale.  Whenever no call is in
\* flight and every saveAccountData so far has returned true, a snapshot
\* held in localStorage for an account and a type has the rows of the
\* record the data store holds for them.
C27_SnapshotsFresh ==
  AllIdle =>
    \A a \in AccountIds, c \in CSV_TYPES :
      lsData[a][c] # NoSnap =>
        /\ Len(GetByIndex(c, a)) > 0
        /\ \A i \in 1..Len(GetByIndex(c, a)) :
             GetByIndex(c, a)[i].data = lsData[a][c].data

\* C28: at most one record per key in a data store.  In every reachable
\* state, calls of saveAccountData for the same account and type overlapping
\* at their awaits included, the data store of a type holds at most one
\* record of an account.
C28_OneRecordPerKey ==
  \A a \in AccountIds, c \in CSV_TYPES :
    Cardinality({r \in idbData[c] : r.accountId = a}) <= 1

\* C29: normalized mapping keys are unambiguous.  From the default table on,
\* after any sequence of edits the editor accepted, two keys of the table
\* that normalizeText makes equal map to the same internal field, so the
\* lookup of mapRow does not depend on the order of the keys.
C29_UnambiguousKeys ==
  \A i, j \in 1..Len(editor.mappings) :
    NormalizeText(editor.mappings[i].k) = NormalizeText(editor.mappings[j].k)
      => editor.mappings[i].v = editor.mappings[j].v

\* C30: the promise of processTikTokData settles exactly once.  For every
\* input (no rows, another platform, a parse error, an exception while the
\* type is detected or while rows are mapped in the timer's callback, a
\* normal file) the promise is eventually fulfilled with data, csvType and
\* meta or rejected with an error; resolve and reject are called once in
\* all, and a settled promise keeps its state and value.
Fulfilled ==
  /\ calc.state = "fulfilled"
  /\ {"data", "csvType", "meta"} \subseteq DOMAIN calc.value
  /\ ~calc.value.rejected

Rejected ==
  /\ calc.state = "rejected"
  /\ calc.value.rejected
  /\ calc.value.error # Absent

C30_SettlesOnce ==
  /\ <>(Fulfilled \/ Rejected)
  /\ [](calc.settles <= 1)
  /\ [](calc.at = "done" => calc.settles = 1)
  /\ [][calc.state # "pending" =>
          calc'.state = calc.state /\ calc'.value = calc.value]_vars

C30_Witness ==
  /\ calc.fn = "promise"
  /\ calc.throwsAt = "batch"
  /\ calc.at = "done"
  /\ Rejected
  /\ calc.value.error = "thrown"
  /\ calc.settles = 1

====
